---- MODULE Spec2Model ----
(***************************************************************************)
(* Model of the ketchup drawing application: the layer stack owned by      *)
(* DrawingApp (drawing-app.ts), and the history engine and floating        *)
(* selection engine of DrawingCanvas (drawing-canvas.ts).                  *)
(*                                                                         *)
(* A raster surface is a row of DocCells cells; a cell holds a colour:     *)
(* 0 is transparent, 1 is white, 2 and above are stroke colours.  A point  *)
(* is a position between cells, 0..DocCells, and the rectangle [x, x + w]  *)
(* covers the cells x+1..x+w; an opacity of 1.0 is written 100.  A cell    *)
(* stands for a column of DocRows pixels and a selection drag spans all of *)
(* them.  float.x and float.w are the rounded origin of the float and the  *)
(* width of its render buffer, the cells a commit paints; currentRect is   *)
(* the float's rectangle as the code keeps it.                             *)
(* The viewport and the geometry of a resize work on JavaScript numbers;   *)
(* these are kept as exact fractions [n, d], so that an equality the code  *)
(* reaches up to floating-point rounding is an equality of the model.      *)
(* Every event handler is one atomic action (the program is                *)
(* single threaded); the state a handler is split over (a brush gesture    *)
(* between pointerdown and pointerup, a selection drag) is kept in the     *)
(* same flags the code keeps.                                              *)
(***************************************************************************)
EXTENDS Integers, Sequences, FiniteSets, TLC

\* ------------------------------------------------------------------ bounds
DocCells == 2            \* cells of a raster surface
DocRows == 3             \* pixel rows that a cell of the row stands for
MaxLayersCreated == 2    \* layers ever created, the initial one included
MaxHistoryLen == 2       \* Spec: entries in the log when an operation starts
MaxLayerHistory == 2     \* SpecLayers: the same
MaxScenarioHistory == 3  \* SpecScenario: the same
MaxVersion == 1          \* history versions when an operation starts
ExtraRecords == 1        \* SpecCap: records beyond the history cap
MaxSelectVersion == 2    \* SpecSelect: history versions when an operation starts
MaxViewOps == 4          \* SpecView: viewport operations in a behaviour
MaxResizeDrags == 2      \* SpecResize: resize drags, and viewport operations, in a behaviour
MaxProjects == 2         \* projects in the database
MaxTasks == 3            \* SpecPersist: saves, project operations and resizes in a behaviour
MaxPersistHistory == 1   \* SpecPersist: entries in the log when an operation starts
ExtraStamps == 2         \* SpecStamps: stamps added beyond the limit of the store
MaxStampTies == 1        \* SpecStamps: calls of addStamp within one tick of Date.now()
MaxStampDeletes == 1     \* SpecStamps: calls of deleteStamp in a behaviour

\* ------------------------------------------------------- program constants
maxHistory == 50

Transparent == 0
White == 1
Ink == 2

HANDLE_SIZE == 8
FORCE_FULL_HISTORY_SAVE == -1
MAX_STAMPS == 20
documentWidth == 800
documentHeight == 600

VARIABLES
  layers,          \* DrawingState.layers: bottom-to-top sequence of Layer
  activeLayerId,   \* DrawingState.activeLayerId
  activeTool,      \* DrawingState.activeTool
  strokeColor,     \* DrawingState.strokeColor
  layerCounter,    \* DrawingApp._layerCounter
  uuidCounter,     \* number of ids crypto.randomUUID() has handed out
  history,         \* DrawingCanvas._history
  historyIndex,    \* DrawingCanvas._historyIndex (0-based, -1 = nothing to undo)
  historyVersion,  \* DrawingCanvas._historyVersion
  beforeDrawData,  \* DrawingCanvas._beforeDrawData (<<>> = null)
  float,           \* DrawingCanvas._float (NoFloat = null)
  drawing,         \* DrawingCanvas._drawing
  selectionDrawing,\* DrawingCanvas._selectionDrawing
  startPoint,      \* DrawingCanvas._startPoint (NoPoint = null)
  floatMoving,     \* DrawingCanvas._floatMoving
  floatDragOffset, \* DrawingCanvas._floatDragOffset (NoPoint = null)
  clipboard,       \* DrawingCanvas._clipboard and _clipboardOrigin (NoClipboard = null)
  opacityBefore,   \* LayersPanel._opacityBefore (NoOpacity = null)
  sliderLayer,     \* the layer row whose opacity slider holds the pointer (0 = none)
  floatSource,     \* the layer under the pending float and its pixels when the float
                   \* was created (observation only; NoSource without a float)
  currentRect,     \* DrawingCanvas._float.currentRect (NoRect without a float)
  floatResizing,   \* DrawingCanvas._floatResizing
  floatResizeHandle, \* DrawingCanvas._floatResizeHandle (NoHandle = null)
  floatResizeOrigin, \* DrawingCanvas._floatResizeOrigin (NoResizeOrigin = null)
  resizeCount,     \* number of resize drags so far (observation only)
  docWidth,        \* DrawingState.documentWidth
  docHeight,       \* DrawingState.documentHeight
  layersPanelOpen, \* DrawingState.layersPanelOpen
  zoom,            \* DrawingCanvas._zoom
  panX,            \* DrawingCanvas._panX
  panY,            \* DrawingCanvas._panY
  vw,              \* DrawingCanvas._vw: mainCanvas.width
  vh,              \* DrawingCanvas._vh: mainCanvas.height
  panning,         \* DrawingCanvas._panning
  panStart,        \* DrawingCanvas._panStartX, _panStartY, _panStartOffsetX, _panStartOffsetY
  viewOps,         \* number of viewport operations so far (observation only)
  currentProject,  \* DrawingApp._currentProject.id
  projectList,     \* DrawingApp._projectList: the ids of the projects in the database
  dirty,           \* DrawingApp._dirty
  saveTimer,       \* DrawingApp._saveTimer: a debounce timer is pending
  saveInProgress,  \* DrawingApp._saveInProgress
  saving,          \* DrawingApp._saving
  lastSavedHistoryLength,  \* DrawingApp._lastSavedHistoryLength
  lastSavedHistoryVersion, \* DrawingApp._lastSavedHistoryVersion
  stateStore,      \* the object store 'project-state': project id -> state record
  historyStore,    \* the object store 'project-history': project id -> records, in
                   \* the order of their auto-increment keys
  saveTask,        \* the call of _save that is awaiting, its position and its locals
  projectTask,     \* the call of doSwitch or doCreate that is awaiting
  taskCount,       \* number of saves and project operations so far (observation only)
  stampStore,      \* the object store 'stamps' in the order of its index 'createdAt'
  stampClock,      \* the value Date.now() returned last
  stampTask,       \* the call of addStamp that is awaiting, its position and its locals
  stampPruned,     \* the newest createdAt that addStamp has pruned (observation only)
  stampOps,        \* calls of addStamp and deleteStamp so far (observation only)
  lastOp           \* the handler that ran last and what it applied (observation only)

vars == <<layers, activeLayerId, activeTool, strokeColor, layerCounter, uuidCounter, history,
          historyIndex, historyVersion, beforeDrawData, float, drawing,
          selectionDrawing, startPoint, floatMoving, floatDragOffset, clipboard,
          opacityBefore, sliderLayer, floatSource, currentRect, floatResizing,
          floatResizeHandle, floatResizeOrigin, resizeCount, docWidth, docHeight,
          layersPanelOpen,
          zoom, panX, panY, vw, vh, panning, panStart, viewOps,
          currentProject, projectList, dirty, saveTimer, saveInProgress, saving,
          lastSavedHistoryLength, lastSavedHistoryVersion, stateStore, historyStore,
          saveTask, projectTask, taskCount, stampStore, stampClock, stampTask, stampPruned, stampOps, lastOp>>

\* the viewport of DrawingCanvas
viewVars == <<zoom, panX, panY, vw, vh, panning, panStart, viewOps>>

\* the document, its history and the gestures on it
canvasVars == <<layers, activeLayerId, activeTool, strokeColor, layerCounter, uuidCounter,
                history, historyIndex, historyVersion, beforeDrawData, float, drawing,
                selectionDrawing, startPoint, floatMoving, floatDragOffset, clipboard,
                opacityBefore, sliderLayer, floatSource, currentRect, floatResizing,
                floatResizeHandle, floatResizeOrigin, resizeCount, docWidth, docHeight,
                layersPanelOpen>>

\* the database of stamps
stampVars == <<stampStore, stampClock, stampTask, stampPruned, stampOps>>

\* the project, the save protocol and the database of DrawingApp
appVars == <<currentProject, projectList, dirty, saveTimer, saveInProgress, saving,
             lastSavedHistoryLength, lastSavedHistoryVersion, stateStore, historyStore,
             saveTask, projectTask, taskCount>>

\* ------------------------------------------------------------------ values
Cells == 1..DocCells
NoData == <<>>
NoPoint == -100
NoOpacity == -1
NoClipboard == [data |-> <<>>, origin |-> NoPoint]
NoFloat == [originalImageData |-> <<>>, x |-> 0, w |-> 0, tempCanvas |-> <<>>]
NoEntry == [type |-> "undefined"]
NoSource == [layerId |-> 0, pixels |-> <<>>]
UndefinedLayer == [id |-> 0, name |-> <<"undefined", 0>>, visible |-> FALSE,
                   opacity |-> 0, pixels |-> <<>>]

BlankPixels == [c \in Cells |-> Transparent]
WhitePixels == [c \in Cells |-> White]

\* the cells of a surface that is width pixels wide
CellsOf(width) == (width * DocCells) \div documentWidth

\* a new canvas of the width with the row px put at its origin: cropped, or padded
\* with transparent cells
ResizeRow(px, width) ==
  [c \in 1..CellsOf(width) |-> IF c <= Len(px) THEN px[c] ELSE Transparent]

LayerName(n) == <<"Layer", n>>
CustomName == <<"Custom", 1>>

\* ------------------------------------------------------- sequence helpers
\* Array.prototype.findIndex, 0-based, -1 when absent
FindIndex(ls, id) ==
  IF \E i \in 1..Len(ls) : ls[i].id = id
  THEN (CHOOSE i \in 1..Len(ls) : ls[i].id = id /\ \A j \in 1..(i-1) : ls[j].id # id) - 1
  ELSE -1

HasLayer(ls, id) == FindIndex(ls, id) # -1

\* Array.prototype.find; only used where the layer exists
FindLayer(ls, id) == ls[FindIndex(ls, id) + 1]

\* Array.prototype.filter(l => l.id !== id)
RECURSIVE FilterOut(_, _)
FilterOut(ls, id) ==
  IF ls = <<>> THEN <<>>
  ELSE IF Head(ls).id = id THEN FilterOut(Tail(ls), id)
       ELSE <<Head(ls)>> \o FilterOut(Tail(ls), id)

Min(a, b) == IF a < b THEN a ELSE b
Max(a, b) == IF a > b THEN a ELSE b

\* ------------------------------------------------------ JavaScript numbers
\* A number is the fraction n / d in lowest terms with d > 0.
RECURSIVE GCD(_, _)
GCD(a, b) == IF b = 0 THEN a ELSE GCD(b, a % b)

Abs(a) == IF a < 0 THEN -a ELSE a

Frac(n, d) ==
  LET g == GCD(Abs(n), Abs(d))
  IN IF d < 0 THEN [n |-> (0 - n) \div g, d |-> (0 - d) \div g]
     ELSE [n |-> n \div g, d |-> d \div g]

Num(i) == [n |-> i, d |-> 1]

\* a + b, a - b, a * b, a / b (b is not zero wherever the model divides)
Plus(a, b) == Frac(a.n * b.d + b.n * a.d, a.d * b.d)
Minus(a, b) == Frac(a.n * b.d - b.n * a.d, a.d * b.d)
Times(a, b) ==
  LET g1 == GCD(Abs(a.n), b.d)
      g2 == GCD(Abs(b.n), a.d)
  IN Frac((a.n \div g1) * (b.n \div g2), (a.d \div g2) * (b.d \div g1))
Over(a, b) == Times(a, Frac(b.d, b.n))

\* a < b, a <= b
Less(a, b) == a.n * b.d < b.n * a.d
AtMost(a, b) == a.n * b.d <= b.n * a.d

\* Math.min, Math.max, Math.abs, Math.round (halves go up), Math.floor
MathMin(a, b) == IF Less(b, a) THEN b ELSE a
MathMax(a, b) == IF Less(a, b) THEN b ELSE a
MathAbs(a) == [n |-> Abs(a.n), d |-> a.d]
MathRound(a) == Num((2 * a.n + a.d) \div (2 * a.d))
MathFloor(a) == Num(a.n \div a.d)

NoRect == [x |-> Num(0), y |-> Num(0), w |-> Num(0), h |-> Num(0)]
NoHandle == "none"
NoResizeOrigin == [rect |-> NoRect, point |-> [x |-> Num(0), y |-> Num(0)]]

\* the rectangle of a float that covers the cells x+1..x+w
RowRect(x, w) == [x |-> Num(x), y |-> Num(0), w |-> Num(w), h |-> Num(DocRows)]

\* Array.prototype.splice(idx, 0, item) with a 0-based idx >= 0
SpliceInsert(ls, idx, item) ==
  LET k == Min(idx, Len(ls))
  IN SubSeq(ls, 1, k) \o <<item>> \o SubSeq(ls, k + 1, Len(ls))

\* Array.prototype.splice(idx, 1) with a 0-based idx >= 0: the rest
SpliceRemove(ls, idx) ==
  IF idx >= Len(ls) THEN ls
  ELSE SubSeq(ls, 1, idx) \o SubSeq(ls, idx + 2, Len(ls))

\* const [moved] = a.splice(from, 1); a.splice(to, 0, moved)
MoveLayer(ls, from, to) ==
  LET moved == IF from < Len(ls) THEN ls[from + 1] ELSE UndefinedLayer
  IN SpliceInsert(SpliceRemove(ls, from), to, moved)

\* layers.map(l => l.id === id ? { ...l, visible } : l)
RECURSIVE WithVisible(_, _, _)
WithVisible(ls, id, v) ==
  IF ls = <<>> THEN <<>>
  ELSE <<IF Head(ls).id = id THEN [Head(ls) EXCEPT !.visible = v] ELSE Head(ls)>>
       \o WithVisible(Tail(ls), id, v)

\* layers.map(l => l.id === id ? { ...l, opacity } : l)
RECURSIVE WithOpacity(_, _, _)
WithOpacity(ls, id, o) ==
  IF ls = <<>> THEN <<>>
  ELSE <<IF Head(ls).id = id THEN [Head(ls) EXCEPT !.opacity = o] ELSE Head(ls)>>
       \o WithOpacity(Tail(ls), id, o)

\* layers.map(l => l.id === id ? { ...l, name } : l)
RECURSIVE WithName(_, _, _)
WithName(ls, id, n) ==
  IF ls = <<>> THEN <<>>
  ELSE <<IF Head(ls).id = id THEN [Head(ls) EXCEPT !.name = n] ELSE Head(ls)>>
       \o WithName(Tail(ls), id, n)

\* writing the canvas of the layer found by id (putImageData, drawImage, clearRect)
RECURSIVE WithPixels(_, _, _)
WithPixels(ls, id, px) ==
  IF ls = <<>> THEN <<>>
  ELSE <<IF Head(ls).id = id THEN [Head(ls) EXCEPT !.pixels = px] ELSE Head(ls)>>
       \o WithPixels(Tail(ls), id, px)

\* ------------------------------------------------- the handlers' state
\* A handler is a composition of method calls; each method is an operator from
\* the state record it finds to the state record it leaves.
Cur == [layers |-> layers, activeLayerId |-> activeLayerId, activeTool |-> activeTool,
        strokeColor |-> strokeColor,
        layerCounter |-> layerCounter, uuidCounter |-> uuidCounter,
        history |-> history, historyIndex |-> historyIndex,
        historyVersion |-> historyVersion, beforeDrawData |-> beforeDrawData,
        float |-> float, drawing |-> drawing, selectionDrawing |-> selectionDrawing,
        startPoint |-> startPoint, floatMoving |-> floatMoving,
        floatDragOffset |-> floatDragOffset, clipboard |-> clipboard,
        opacityBefore |-> opacityBefore, sliderLayer |-> sliderLayer,
        floatSource |-> floatSource, currentRect |-> currentRect,
        floatResizing |-> floatResizing, floatResizeHandle |-> floatResizeHandle,
        floatResizeOrigin |-> floatResizeOrigin, resizeCount |-> resizeCount,
        docWidth |-> docWidth, docHeight |-> docHeight,
        layersPanelOpen |-> layersPanelOpen]

\* the document becomes s
DocBecomes(s) ==
  /\ layers' = s.layers
  /\ activeLayerId' = s.activeLayerId
  /\ activeTool' = s.activeTool
  /\ strokeColor' = s.strokeColor
  /\ layerCounter' = s.layerCounter
  /\ uuidCounter' = s.uuidCounter
  /\ history' = s.history
  /\ historyIndex' = s.historyIndex
  /\ historyVersion' = s.historyVersion
  /\ beforeDrawData' = s.beforeDrawData
  /\ float' = s.float
  /\ drawing' = s.drawing
  /\ selectionDrawing' = s.selectionDrawing
  /\ startPoint' = s.startPoint
  /\ floatMoving' = s.floatMoving
  /\ floatDragOffset' = s.floatDragOffset
  /\ clipboard' = s.clipboard
  /\ opacityBefore' = s.opacityBefore
  /\ sliderLayer' = s.sliderLayer
  /\ floatSource' = s.floatSource
  /\ currentRect' = s.currentRect
  /\ floatResizing' = s.floatResizing
  /\ floatResizeHandle' = s.floatResizeHandle
  /\ floatResizeOrigin' = s.floatResizeOrigin
  /\ resizeCount' = s.resizeCount
  /\ docWidth' = s.docWidth
  /\ docHeight' = s.docHeight
  /\ layersPanelOpen' = s.layersPanelOpen

\* DrawingApp._markDirty is called by a handler that leaves s and is named op: by
\* _onHistoryChange after every _notifyHistory (a record, an undo or a redo that passed
\* its check) and by the context operations setTool, setStrokeColor and setLayerOpacity
MarksDirty(s, op) ==
  \/ Len(s.history) # Len(history)
  \/ s.historyIndex # historyIndex
  \/ s.historyVersion # historyVersion
  \/ op.op \in {"setTool", "setStrokeColor", "opacityInput"}

\* a handler of the canvas or of a panel leaves the document s
Becomes(s, op) ==
  /\ DocBecomes(s)
  /\ lastOp' = op
  /\ dirty' = (dirty \/ MarksDirty(s, op))
  /\ saveTimer' = (saveTimer \/ MarksDirty(s, op))
  /\ UNCHANGED <<currentProject, projectList, saveInProgress, saving,
                 lastSavedHistoryLength, lastSavedHistoryVersion, stateStore,
                 historyStore, saveTask, projectTask, taskCount>>
  /\ UNCHANGED viewVars
  /\ UNCHANGED stampVars

\* ---------------------------------------------------------------- history
canUndoOf(s) == s.historyIndex >= 0
canRedoOf(s) == s.historyIndex < Len(s.history) - 1

\* _pushHistoryEntry with the cursor advanced on an eviction as well
PushHistoryEntry_AdvanceOnEvict(s, entry) ==
  LET prevLength == Len(s.history)
      sliced == SubSeq(s.history, 1, Min(s.historyIndex + 1, prevLength))
      v1 == IF Len(sliced) < prevLength THEN s.historyVersion + 1 ELSE s.historyVersion
      pushed == Append(sliced, entry)
  IN IF Len(pushed) > maxHistory
     THEN [s EXCEPT !.history = Tail(pushed), !.historyVersion = v1 + 1,
                    !.historyIndex = s.historyIndex + 1]
     ELSE [s EXCEPT !.history = pushed, !.historyVersion = v1,
                    !.historyIndex = s.historyIndex + 1]

\* _pushHistoryEntry with the version counted on an eviction only
PushHistoryEntry_VersionOnEvict(s, entry) ==
  LET prevLength == Len(s.history)
      sliced == SubSeq(s.history, 1, Min(s.historyIndex + 1, prevLength))
      pushed == Append(sliced, entry)
  IN IF Len(pushed) > maxHistory
     THEN [s EXCEPT !.history = Tail(pushed), !.historyVersion = s.historyVersion + 1]
     ELSE [s EXCEPT !.history = pushed, !.historyIndex = s.historyIndex + 1]

\* DrawingCanvas._pushHistoryEntry
PushHistoryEntry(s, entry) ==
  LET prevLength == Len(s.history)
      sliced == SubSeq(s.history, 1, Min(s.historyIndex + 1, prevLength))
      v1 == IF Len(sliced) < prevLength THEN s.historyVersion + 1 ELSE s.historyVersion
      pushed == Append(sliced, entry)
  IN IF Len(pushed) > maxHistory
     THEN [s EXCEPT !.history = Tail(pushed), !.historyVersion = v1 + 1]
     ELSE [s EXCEPT !.history = pushed, !.historyVersion = v1,
                    !.historyIndex = s.historyIndex + 1]

\* DrawingCanvas._getActiveLayerCtx: is there a layer with the active id
HasActiveLayerCtx(s) == HasLayer(s.layers, s.activeLayerId)

ActivePixels(s) == FindLayer(s.layers, s.activeLayerId).pixels

SetActivePixels(s, px) ==
  [s EXCEPT !.layers = WithPixels(s.layers, s.activeLayerId, px)]

\* DrawingCanvas._captureBeforeDraw
CaptureBeforeDraw(s) ==
  IF ~HasActiveLayerCtx(s) THEN s
  ELSE [s EXCEPT !.beforeDrawData = ActivePixels(s)]

\* DrawingCanvas._pushDrawHistory
PushDrawHistory(s) ==
  IF ~HasActiveLayerCtx(s) \/ s.beforeDrawData = NoData THEN s
  ELSE [PushHistoryEntry(s, [type |-> "draw", layerId |-> s.activeLayerId,
                             before |-> s.beforeDrawData, after |-> ActivePixels(s)])
        EXCEPT !.beforeDrawData = NoData]

\* ------------------------------------------------------ floating selection
\* CanvasRenderingContext2D.getImageData(x, 0, w, 1): cells outside the canvas read
\* as transparent
GetImageData(px, x, w) ==
  [i \in 1..w |-> IF (x + i) \in 1..Len(px) THEN px[x + i] ELSE Transparent]

\* CanvasRenderingContext2D.clearRect(x, 0, w, 1)
ClearRect(px, x, w) ==
  [c \in 1..Len(px) |-> IF c > x /\ c <= x + w THEN Transparent ELSE px[c]]

\* CanvasRenderingContext2D.drawImage(img, x, 0): source-over, clipped to the canvas
DrawImage(px, img, x) ==
  [c \in 1..Len(px) |->
     IF c > x /\ c <= x + Len(img) /\ img[c - x] # Transparent THEN img[c - x] ELSE px[c]]

\* DrawingCanvas._clearFloatState
ClearFloatState(s) ==
  [s EXCEPT !.float = NoFloat, !.floatMoving = FALSE, !.floatDragOffset = NoPoint,
            !.selectionDrawing = FALSE, !.floatSource = NoSource,
            !.currentRect = NoRect, !.floatResizing = FALSE,
            !.floatResizeHandle = NoHandle, !.floatResizeOrigin = NoResizeOrigin]

\* DrawingCanvas._commitFloat
CommitFloat(s) ==
  IF s.float = NoFloat \/ ~HasActiveLayerCtx(s) THEN s
  ELSE ClearFloatState(PushDrawHistory(
         SetActivePixels(s, DrawImage(ActivePixels(s), s.float.tempCanvas, s.float.x))))

\* DrawingCanvas._liftToFloat
LiftToFloat(s, x, w) ==
  IF ~HasActiveLayerCtx(s) THEN s
  ELSE LET c == CaptureBeforeDraw(s)
           imageData == GetImageData(ActivePixels(c), x, w)
       IN [SetActivePixels(c, ClearRect(ActivePixels(c), x, w))
           EXCEPT !.float = [originalImageData |-> imageData, x |-> x, w |-> w,
                             tempCanvas |-> imageData],
                  !.currentRect = RowRect(x, w),
                  !.floatSource = [layerId |-> s.activeLayerId,
                                   pixels |-> ActivePixels(s)]]

\* DrawingCanvas._isInsideFloat
IsInsideFloat(s, p) ==
  s.float # NoFloat /\ p >= s.float.x /\ p <= s.float.x + s.float.w

\* --------------------------------------------------- resize of the float
\* the eight handles, in the order _hitTestHandle tries them
Handles == <<"nw", "n", "ne", "e", "se", "s", "sw", "w">>

\* the centre of a handle of the rectangle r
HandlePoint(r, handle) ==
  [x |-> IF handle \in {"nw", "sw", "w"} THEN r.x
         ELSE IF handle \in {"n", "s"} THEN Plus(r.x, Over(r.w, Num(2)))
         ELSE Plus(r.x, r.w),
   y |-> IF handle \in {"nw", "n", "ne"} THEN r.y
         ELSE IF handle \in {"e", "w"} THEN Plus(r.y, Over(r.h, Num(2)))
         ELSE Plus(r.y, r.h)]

\* DrawingCanvas._hitTestHandle at the zoom z
HitTestHandle(s, p, z) ==
  LET half == Over(Over(Num(HANDLE_SIZE), z), Num(2))
      hits == {i \in 1..Len(Handles) :
                 LET c == HandlePoint(s.currentRect, Handles[i])
                 IN /\ AtMost(Minus(c.x, half), p.x) /\ AtMost(p.x, Plus(c.x, half))
                    /\ AtMost(Minus(c.y, half), p.y) /\ AtMost(p.y, Plus(c.y, half))}
  IN IF s.float = NoFloat \/ hits = {} THEN NoHandle
     ELSE Handles[CHOOSE i \in hits : \A j \in hits : i <= j]

\* DrawingCanvas._handleSelectPointerDown, the press on a handle
HandleResizePointerDownOf(s, p, z) ==
  IF HitTestHandle(s, p, z) = NoHandle THEN s
  ELSE [s EXCEPT !.floatResizing = TRUE,
                 !.floatResizeHandle = HitTestHandle(s, p, z),
                 !.floatResizeOrigin = [rect |-> s.currentRect, point |-> p],
                 !.resizeCount = s.resizeCount + 1]

\* drawImage(src, 0, 0, newW, newH) on a row of cells: a cell of the result takes
\* the colour of the source cell under its centre
Resample(src, newW) ==
  [i \in 1..newW |-> src[((2 * i - 1) * Len(src)) \div (2 * newW) + 1]]

\* _rebuildTempCanvas with the previous render buffer as the source
RebuildTempCanvas_FromPrevious(s) ==
  IF s.float = NoFloat THEN s
  ELSE LET newW == Max(1, MathRound(s.currentRect.w).n)
       IN [s EXCEPT !.float.tempCanvas = Resample(s.float.tempCanvas, newW),
                    !.float.w = newW]

\* DrawingCanvas._rebuildTempCanvas: _floatSrcCanvas holds originalImageData
RebuildTempCanvas(s) ==
  IF s.float = NoFloat THEN s
  ELSE LET newW == Max(1, MathRound(s.currentRect.w).n)
       IN [s EXCEPT !.float.tempCanvas = Resample(s.float.originalImageData, newW),
                    !.float.w = newW]

\* _applyResize without the floor of the minimum size
ApplyResize_NoFloor(s, p, z) ==
  IF s.float = NoFloat \/ s.floatResizeOrigin = NoResizeOrigin THEN s
  ELSE
    LET orig == s.floatResizeOrigin.rect
        start == s.floatResizeOrigin.point
        dx == Minus(p.x, start.x)
        dy == Minus(p.y, start.y)
        handle == s.floatResizeHandle
        west == handle \in {"nw", "w", "sw"}
        east == handle \in {"ne", "e", "se"}
        north == handle \in {"nw", "n", "ne"}
        south == handle \in {"sw", "s", "se"}
        corner == handle \in {"nw", "ne", "se", "sw"}
        x1 == IF west THEN Plus(orig.x, dx) ELSE orig.x
        w1 == IF west THEN Minus(orig.w, dx) ELSE IF east THEN Plus(orig.w, dx) ELSE orig.w
        y1 == IF north THEN Plus(orig.y, dy) ELSE orig.y
        h1 == IF north THEN Minus(orig.h, dy) ELSE IF south THEN Plus(orig.h, dy) ELSE orig.h
        aspect == Over(orig.w, orig.h)
        byWidth == Less(Over(MathAbs(Minus(h1, orig.h)), orig.h),
                        Over(MathAbs(Minus(w1, orig.w)), orig.w))
        w2 == IF corner /\ ~byWidth THEN Times(h1, aspect) ELSE w1
        h2 == IF corner /\ byWidth THEN Over(w1, aspect) ELSE h1
        x2 == IF handle \in {"nw", "sw"} THEN Minus(Plus(orig.x, orig.w), w2) ELSE x1
        y2 == IF handle \in {"nw", "ne"} THEN Minus(Plus(orig.y, orig.h), h2) ELSE y1
        x3 == IF Less(w2, Num(0)) THEN Plus(x2, w2) ELSE x2
        w3 == IF Less(w2, Num(0)) THEN Minus(Num(0), w2) ELSE w2
        y3 == IF Less(h2, Num(0)) THEN Plus(y2, h2) ELSE y2
        h3 == IF Less(h2, Num(0)) THEN Minus(Num(0), h2) ELSE h2
    IN RebuildTempCanvas([s EXCEPT !.currentRect = [x |-> x3, y |-> y3, w |-> w3, h |-> h3],
                                   !.float.x = MathRound(x3).n])

\* DrawingCanvas._applyResize at the zoom z
ApplyResize(s, p, z) ==
  IF s.float = NoFloat \/ s.floatResizeOrigin = NoResizeOrigin THEN s
  ELSE
    LET orig == s.floatResizeOrigin.rect
        start == s.floatResizeOrigin.point
        dx == Minus(p.x, start.x)
        dy == Minus(p.y, start.y)
        handle == s.floatResizeHandle
        minSize == Over(Num(4), z)
        west == handle \in {"nw", "w", "sw"}
        east == handle \in {"ne", "e", "se"}
        north == handle \in {"nw", "n", "ne"}
        south == handle \in {"sw", "s", "se"}
        corner == handle \in {"nw", "ne", "se", "sw"}
        x1 == IF west THEN Plus(orig.x, dx) ELSE orig.x
        w1 == IF west THEN Minus(orig.w, dx) ELSE IF east THEN Plus(orig.w, dx) ELSE orig.w
        y1 == IF north THEN Plus(orig.y, dy) ELSE orig.y
        h1 == IF north THEN Minus(orig.h, dy) ELSE IF south THEN Plus(orig.h, dy) ELSE orig.h
        aspect == Over(orig.w, orig.h)
        byWidth == Less(Over(MathAbs(Minus(h1, orig.h)), orig.h),
                        Over(MathAbs(Minus(w1, orig.w)), orig.w))
        w2 == IF corner /\ ~byWidth THEN Times(h1, aspect) ELSE w1
        h2 == IF corner /\ byWidth THEN Over(w1, aspect) ELSE h1
        x2 == IF handle \in {"nw", "sw"} THEN Minus(Plus(orig.x, orig.w), w2) ELSE x1
        y2 == IF handle \in {"nw", "ne"} THEN Minus(Plus(orig.y, orig.h), h2) ELSE y1
        x3 == IF Less(w2, Num(0)) THEN Plus(x2, w2) ELSE x2
        w3 == IF Less(w2, Num(0)) THEN Minus(Num(0), w2) ELSE w2
        y3 == IF Less(h2, Num(0)) THEN Plus(y2, h2) ELSE y2
        h3 == IF Less(h2, Num(0)) THEN Minus(Num(0), h2) ELSE h2
        w4 == IF Less(w3, minSize) THEN minSize ELSE w3
        h4 == IF Less(h3, minSize) THEN minSize ELSE h3
    IN RebuildTempCanvas([s EXCEPT !.currentRect = [x |-> x3, y |-> y3, w |-> w4, h |-> h4],
                                   !.float.x = MathRound(x3).n])

\* ------------------------------------------- structural undo in DrawingApp
\* 'remove-layer' without the choice of a new active layer
OnLayerUndoRemove_KeepActive(s, layerId) ==
  LET newLayers == FilterOut(s.layers, layerId)
  IN IF Len(newLayers) = 0 THEN s
     ELSE [s EXCEPT !.layers = newLayers, !.activeLayerId = s.activeLayerId]

\* DrawingApp._onLayerUndo, action 'remove-layer'
OnLayerUndoRemove(s, layerId) ==
  LET removedIdx == FindIndex(s.layers, layerId)
      newLayers == FilterOut(s.layers, layerId)
  IN IF Len(newLayers) = 0 THEN s
     ELSE [s EXCEPT !.layers = newLayers,
                    !.activeLayerId =
                       IF s.activeLayerId = layerId
                       THEN newLayers[Min(removedIdx, Len(newLayers) - 1) + 1].id
                       ELSE s.activeLayerId]

\* DrawingApp._onLayerUndo, action 'restore-layer'
OnLayerUndoRestore(s, snapshot, index) ==
  LET layer == [id |-> snapshot.id, name |-> snapshot.name, visible |-> snapshot.visible,
                opacity |-> snapshot.opacity, pixels |-> snapshot.imageData]
      idx == IF index = -1 THEN Len(s.layers) ELSE index
  IN [s EXCEPT !.layers = SpliceInsert(s.layers, idx, layer), !.activeLayerId = layer.id]

\* DrawingApp._onLayerUndo, action 'reorder'
OnLayerUndoReorder(s, fromIndex, toIndex) ==
  [s EXCEPT !.layers = MoveLayer(s.layers, fromIndex, toIndex)]

\* _applyUndo with a draw entry's after snapshot put back instead of its before
ApplyUndo_DrawAfter(s, entry) ==
  CASE entry.type = "draw" ->
         [s EXCEPT !.layers = WithPixels(s.layers, entry.layerId, entry.after)]
    [] entry.type = "add-layer" -> OnLayerUndoRemove(s, entry.layer.id)
    [] entry.type = "delete-layer" -> OnLayerUndoRestore(s, entry.layer, entry.index)
    [] entry.type = "reorder" -> OnLayerUndoReorder(s, entry.toIndex, entry.fromIndex)
    [] entry.type = "visibility" ->
         [s EXCEPT !.layers = WithVisible(s.layers, entry.layerId, entry.before)]
    [] entry.type = "opacity" ->
         [s EXCEPT !.layers = WithOpacity(s.layers, entry.layerId, entry.before)]
    [] entry.type = "rename" ->
         [s EXCEPT !.layers = WithName(s.layers, entry.layerId, entry.before)]
    [] OTHER -> s

\* DrawingCanvas._applyUndo
ApplyUndo(s, entry) ==
  CASE entry.type = "draw" ->
         [s EXCEPT !.layers = WithPixels(s.layers, entry.layerId, entry.before)]
    [] entry.type = "add-layer" -> OnLayerUndoRemove(s, entry.layer.id)
    [] entry.type = "delete-layer" -> OnLayerUndoRestore(s, entry.layer, entry.index)
    [] entry.type = "reorder" -> OnLayerUndoReorder(s, entry.toIndex, entry.fromIndex)
    [] entry.type = "visibility" ->
         [s EXCEPT !.layers = WithVisible(s.layers, entry.layerId, entry.before)]
    [] entry.type = "opacity" ->
         [s EXCEPT !.layers = WithOpacity(s.layers, entry.layerId, entry.before)]
    [] entry.type = "rename" ->
         [s EXCEPT !.layers = WithName(s.layers, entry.layerId, entry.before)]
    [] OTHER -> s   \* entry is undefined: entry.type throws, nothing is applied

\* DrawingCanvas._applyRedo
ApplyRedo(s, entry) ==
  CASE entry.type = "draw" ->
         [s EXCEPT !.layers = WithPixels(s.layers, entry.layerId, entry.after)]
    [] entry.type = "add-layer" -> OnLayerUndoRestore(s, entry.layer, entry.index)
    [] entry.type = "delete-layer" -> OnLayerUndoRemove(s, entry.layer.id)
    [] entry.type = "reorder" -> OnLayerUndoReorder(s, entry.fromIndex, entry.toIndex)
    [] entry.type = "visibility" ->
         [s EXCEPT !.layers = WithVisible(s.layers, entry.layerId, entry.after)]
    [] entry.type = "opacity" ->
         [s EXCEPT !.layers = WithOpacity(s.layers, entry.layerId, entry.after)]
    [] entry.type = "rename" ->
         [s EXCEPT !.layers = WithName(s.layers, entry.layerId, entry.after)]
    [] OTHER -> s   \* entry is undefined: entry.type throws, nothing is applied

\* this._history[i] for a 0-based i: undefined outside the array
EntryAt(h, i) == IF i >= 0 /\ i < Len(h) THEN h[i + 1] ELSE NoEntry

\* undo() that commits the float before it looks at the cursor
UndoOf_CommitFirst(s) ==
  LET c == CommitFloat(s)
      entry == EntryAt(c.history, c.historyIndex)
  IN IF c.historyIndex < 0 THEN c
     ELSE ApplyUndo([c EXCEPT !.historyIndex = c.historyIndex - 1], entry)

\* DrawingCanvas.undo
UndoOf(s) ==
  IF s.historyIndex < 0 THEN s
  ELSE LET c == CommitFloat(s)
           entry == EntryAt(c.history, c.historyIndex)
       IN ApplyUndo([c EXCEPT !.historyIndex = c.historyIndex - 1], entry)

\* DrawingCanvas.redo
RedoOf(s) ==
  IF s.historyIndex >= Len(s.history) - 1 THEN s
  ELSE LET c == CommitFloat(s)
           entry == EntryAt(c.history, c.historyIndex + 1)
       IN ApplyRedo([c EXCEPT !.historyIndex = c.historyIndex + 1], entry)

\* --------------------------------------------- DrawingApp layer operations
\* DrawingApp._snapshotLayer
SnapshotLayer(l) ==
  [id |-> l.id, name |-> l.name, visible |-> l.visible, opacity |-> l.opacity,
   imageData |-> l.pixels]

\* DrawingApp._createLayer: the layer, before the counters move on
CreateLayer(s) ==
  [id |-> s.uuidCounter + 1, name |-> LayerName(s.layerCounter + 1), visible |-> TRUE,
   opacity |-> 100, pixels |-> ResizeRow(<<>>, s.docWidth)]

\* context.addLayer
AddLayerOf(s) ==
  LET layer == CreateLayer(s)
      insertIdx == FindIndex(s.layers, s.activeLayerId) + 1
      s1 == [s EXCEPT !.layerCounter = s.layerCounter + 1,
                      !.uuidCounter = s.uuidCounter + 1,
                      !.layers = SpliceInsert(s.layers, insertIdx, layer),
                      !.activeLayerId = layer.id]
  IN PushHistoryEntry(s1, [type |-> "add-layer", layer |-> SnapshotLayer(layer),
                           index |-> insertIdx])

\* deleteLayer that records the deletion it rejects
DeleteLayerOf_RecordRejected(s, id) ==
  IF ~HasLayer(s.layers, id) THEN s
  ELSE PushHistoryEntry(s, [type |-> "delete-layer",
                            layer |-> SnapshotLayer(FindLayer(s.layers, id)),
                            index |-> FindIndex(s.layers, id)])

\* context.deleteLayer
DeleteLayerOf(s, id) ==
  IF Len(s.layers) <= 1 \/ ~HasLayer(s.layers, id) THEN s
  ELSE LET idx == FindIndex(s.layers, id)
           c == IF id = s.activeLayerId THEN CommitFloat(s) ELSE s
           snapshot == SnapshotLayer(c.layers[idx + 1])
           newLayers == FilterOut(c.layers, id)
           newActiveId == IF c.activeLayerId = id
                          THEN newLayers[Min(idx, Len(newLayers) - 1) + 1].id
                          ELSE c.activeLayerId
       IN PushHistoryEntry([c EXCEPT !.layers = newLayers, !.activeLayerId = newActiveId],
                           [type |-> "delete-layer", layer |-> snapshot, index |-> idx])

\* context.setActiveLayer
SetActiveLayerOf(s, id) ==
  IF HasLayer(s.layers, id) THEN [CommitFloat(s) EXCEPT !.activeLayerId = id] ELSE s

\* context.toggleLayersPanel
ToggleLayersPanelOf(s) == [s EXCEPT !.layersPanelOpen = ~s.layersPanelOpen]

\* context.setLayerVisibility
SetLayerVisibilityOf(s, id, visible) ==
  IF ~HasLayer(s.layers, id) \/ FindLayer(s.layers, id).visible = visible THEN s
  ELSE PushHistoryEntry([s EXCEPT !.layers = WithVisible(s.layers, id, visible)],
                        [type |-> "visibility", layerId |-> id,
                         before |-> FindLayer(s.layers, id).visible, after |-> visible])

\* context.setLayerOpacity
SetLayerOpacityOf(s, id, opacity) ==
  IF ~HasLayer(s.layers, id) THEN s
  ELSE [s EXCEPT !.layers = WithOpacity(s.layers, id, opacity)]

\* LayersPanel._onOpacityChange and DrawingApp._onCommitOpacity
OnOpacityChangeOf(s, layerId, after) ==
  LET before == s.opacityBefore
      s1 == [s EXCEPT !.opacityBefore = NoOpacity]
  IN IF before # NoOpacity /\ before # after
     THEN PushHistoryEntry(s1, [type |-> "opacity", layerId |-> layerId,
                                before |-> before, after |-> after])
     ELSE s1

\* context.reorderLayer
ReorderLayerOf(s, id, newIndex) ==
  LET oldIndex == FindIndex(s.layers, id)
  IN IF oldIndex = -1 \/ oldIndex = newIndex THEN s
     ELSE PushHistoryEntry([s EXCEPT !.layers = MoveLayer(s.layers, oldIndex, newIndex)],
                           [type |-> "reorder", fromIndex |-> oldIndex,
                            toIndex |-> newIndex])

\* context.renameLayer
RenameLayerOf(s, id, name) ==
  IF ~HasLayer(s.layers, id) \/ FindLayer(s.layers, id).name = name THEN s
  ELSE PushHistoryEntry([s EXCEPT !.layers = WithName(s.layers, id, name)],
                        [type |-> "rename", layerId |-> id,
                         before |-> FindLayer(s.layers, id).name, after |-> name])

\* context.setTool
SetToolOf(s, tool) ==
  [(IF s.activeTool # tool THEN CommitFloat(s) ELSE s) EXCEPT !.activeTool = tool]

\* --------------------------------------------- DrawingCanvas public methods
\* DrawingCanvas.clearCanvas
ClearCanvasOf(s) ==
  LET c == CaptureBeforeDraw(s)
  IN PushDrawHistory(IF HasActiveLayerCtx(c)
                     THEN SetActivePixels(c, ResizeRow(<<>>, s.docWidth)) ELSE c)

\* DrawingCanvas.copySelection
CopySelectionOf(s) ==
  IF s.float = NoFloat THEN s
  ELSE [s EXCEPT !.clipboard = [data |-> s.float.tempCanvas, origin |-> s.float.x]]

\* DrawingCanvas.deleteSelection
DeleteSelectionOf(s) ==
  IF s.float = NoFloat THEN s
  ELSE ClearFloatState(PushDrawHistory(
         IF s.beforeDrawData = NoData THEN CaptureBeforeDraw(s) ELSE s))

\* DrawingCanvas.cutSelection
CutSelectionOf(s) ==
  IF s.float = NoFloat THEN s ELSE DeleteSelectionOf(CopySelectionOf(s))

\* DrawingCanvas.pasteSelection
PasteSelectionOf(s) ==
  IF s.clipboard = NoClipboard THEN s
  ELSE LET c == CaptureBeforeDraw(CommitFloat(s))
       IN [c EXCEPT !.float = [originalImageData |-> s.clipboard.data,
                               x |-> s.clipboard.origin, w |-> Len(s.clipboard.data),
                               tempCanvas |-> s.clipboard.data],
                    !.currentRect = RowRect(s.clipboard.origin, Len(s.clipboard.data)),
                    !.floatSource = IF HasActiveLayerCtx(c)
                                    THEN [layerId |-> c.activeLayerId,
                                          pixels |-> ActivePixels(c)]
                                    ELSE NoSource]

\* ----------------------------------------------------------------- keyboard
\* where a key is pressed: the canvas, the brush-size slider, the input that renames
\* a layer, the input that renames a project
KeyTargets == {"canvas", "rangeInput", "layerNameInput", "projectNameInput"}
TextInputs == {"layerNameInput", "projectNameInput"}
Keys == {"z", "y", "c", "x", "v", "Delete", "Backspace", "Escape", "a"}
KeyEvents == [key : Keys, ctrlKey : BOOLEAN, shiftKey : BOOLEAN, target : KeyTargets]

\* DrawingApp._onKeyDown
OnKeyDown(s, e) ==
  IF e.ctrlKey /\ e.key = "z" /\ ~e.shiftKey THEN UndoOf(s)
  ELSE IF e.ctrlKey /\ (e.key = "y" \/ (e.key = "z" /\ e.shiftKey)) THEN RedoOf(s)
  ELSE IF e.ctrlKey /\ e.key = "c" THEN CopySelectionOf(s)
  ELSE IF e.ctrlKey /\ e.key = "x" THEN CutSelectionOf(s)
  ELSE IF e.ctrlKey /\ e.key = "v" THEN PasteSelectionOf(s)
  ELSE IF e.key \in {"Delete", "Backspace"} /\ s.activeTool = "select"
  THEN DeleteSelectionOf(s)
  ELSE IF e.key = "Escape" THEN CommitFloat(s)
  ELSE s

\* the keydown event on its way from its target to the listener of <drawing-app>:
\* LayersPanel._onRenameKeyDown stops it, ToolSettings._onRenameKeydown and the
\* other elements let it bubble
KeyDownOf(s, e) ==
  IF e.target = "layerNameInput" THEN s ELSE OnKeyDown(s, e)

\* ----------------------------------------------------------------- viewport
MIN_ZOOM == Frac(1, 10)
MAX_ZOOM == Num(10)
ZOOM_STEP == Frac(11, 10)

NoPanStart == [x |-> 0, y |-> 0, offsetX |-> Num(0), offsetY |-> Num(0)]

\* the viewport fields a handler finds and leaves
View == [zoom |-> zoom, panX |-> panX, panY |-> panY, vw |-> vw, vh |-> vh,
         panning |-> panning, panStart |-> panStart]

\* Math.min(MAX_ZOOM, Math.max(MIN_ZOOM, z))
ClampZoom(z) == MathMin(MAX_ZOOM, MathMax(MIN_ZOOM, z))

\* _zoomToCenter without the clamp
ZoomToCenter_Unclamped(v, newZoom) ==
  LET clamped == newZoom
      cx == Frac(v.vw, 2)
      cy == Frac(v.vh, 2)
      docX == Over(Minus(cx, v.panX), v.zoom)
      docY == Over(Minus(cy, v.panY), v.zoom)
  IN IF clamped = v.zoom THEN v
     ELSE [v EXCEPT !.panX = Minus(cx, Times(docX, clamped)),
                    !.panY = Minus(cy, Times(docY, clamped)),
                    !.zoom = clamped]

\* DrawingCanvas._zoomToCenter
ZoomToCenter(v, newZoom) ==
  LET clamped == ClampZoom(newZoom)
      cx == Frac(v.vw, 2)
      cy == Frac(v.vh, 2)
      docX == Over(Minus(cx, v.panX), v.zoom)
      docY == Over(Minus(cy, v.panY), v.zoom)
  IN IF clamped = v.zoom THEN v
     ELSE [v EXCEPT !.panX = Minus(cx, Times(docX, clamped)),
                    !.panY = Minus(cy, Times(docY, clamped)),
                    !.zoom = clamped]

\* DrawingCanvas.zoomIn, DrawingCanvas.zoomOut
ZoomInOf(v) == ZoomToCenter(v, Times(v.zoom, ZOOM_STEP))
ZoomOutOf(v) == ZoomToCenter(v, Over(v.zoom, ZOOM_STEP))

\* _onWheel with Ctrl, the pan left as it was
OnWheelZoom_KeepPan(v, viewportX, viewportY, direction) ==
  LET newZoom == ClampZoom(IF direction = 1 THEN Times(v.zoom, ZOOM_STEP)
                           ELSE Over(v.zoom, ZOOM_STEP))
  IN IF newZoom = v.zoom THEN v
     ELSE [v EXCEPT !.zoom = newZoom]

\* DrawingCanvas._onWheel with Ctrl or Meta held: direction is 1 for deltaY < 0 and
\* -1 otherwise; Math.pow(ZOOM_STEP, -1) is 1 / ZOOM_STEP
OnWheelZoom(v, viewportX, viewportY, direction) ==
  LET docX == Over(Minus(Num(viewportX), v.panX), v.zoom)
      docY == Over(Minus(Num(viewportY), v.panY), v.zoom)
      newZoom == ClampZoom(IF direction = 1 THEN Times(v.zoom, ZOOM_STEP)
                           ELSE Over(v.zoom, ZOOM_STEP))
  IN IF newZoom = v.zoom THEN v
     ELSE [v EXCEPT !.panX = Minus(Num(viewportX), Times(docX, newZoom)),
                    !.panY = Minus(Num(viewportY), Times(docY, newZoom)),
                    !.zoom = newZoom]

\* DrawingCanvas._onWheel without a modifier
OnWheelPan(v, deltaX, deltaY) ==
  [v EXCEPT !.panX = Minus(v.panX, Num(deltaX)), !.panY = Minus(v.panY, Num(deltaY))]

\* DrawingCanvas.zoomToFit
ZoomToFitOf(v) ==
  LET fitZoom == Times(MathMin(Frac(v.vw, documentWidth), Frac(v.vh, documentHeight)),
                       Frac(9, 10))
      z == ClampZoom(fitZoom)
  IN [v EXCEPT !.zoom = z,
               !.panX = MathRound(Over(Minus(Num(v.vw), Times(Num(documentWidth), z)),
                                       Num(2))),
               !.panY = MathRound(Over(Minus(Num(v.vh), Times(Num(documentHeight), z)),
                                       Num(2)))]

\* DrawingCanvas._startPan
StartPan(v, clientX, clientY) ==
  [v EXCEPT !.panning = TRUE,
            !.panStart = [x |-> clientX, y |-> clientY,
                          offsetX |-> v.panX, offsetY |-> v.panY]]

\* DrawingCanvas._updatePan
UpdatePan(v, clientX, clientY) ==
  IF ~v.panning THEN v
  ELSE [v EXCEPT !.panX = Plus(v.panStart.offsetX, Num(clientX - v.panStart.x)),
                 !.panY = Plus(v.panStart.offsetY, Num(clientY - v.panStart.y))]

\* DrawingCanvas._endPan
EndPan(v) == IF ~v.panning THEN v ELSE [v EXCEPT !.panning = FALSE]

\* DrawingCanvas._resizeToFit: newWidth and newHeight are the floors of the
\* element's width and height, which are positive
ResizeToFit(v, newWidth, newHeight) ==
  IF v.vw = newWidth /\ v.vh = newHeight THEN v
  ELSE LET oldCenterDocX == Over(Minus(Frac(v.vw, 2), v.panX), v.zoom)
           oldCenterDocY == Over(Minus(Frac(v.vh, 2), v.panY), v.zoom)
       IN [v EXCEPT !.vw = newWidth, !.vh = newHeight,
                    !.panX = Minus(Frac(newWidth, 2), Times(oldCenterDocX, v.zoom)),
                    !.panY = Minus(Frac(newHeight, 2), Times(oldCenterDocY, v.zoom))]

\* -------------------------------------------------------------- persistence
NoRecord == [projectId |-> 0]
NoTask == [pc |-> "idle"]

\* the fields of DrawingApp's save protocol and the database
App == [currentProject |-> currentProject, projectList |-> projectList, dirty |-> dirty,
        saveTimer |-> saveTimer, saveInProgress |-> saveInProgress, saving |-> saving,
        lastSavedHistoryLength |-> lastSavedHistoryLength,
        lastSavedHistoryVersion |-> lastSavedHistoryVersion,
        stateStore |-> stateStore, historyStore |-> historyStore,
        saveTask |-> saveTask, projectTask |-> projectTask, taskCount |-> taskCount]

\* what a handler of DrawingApp finds and leaves
World == [doc |-> Cur, view |-> View, app |-> App]

\* DrawingApp._markDirty
MarkDirty(w) == [w EXCEPT !.app.dirty = TRUE, !.app.saveTimer = TRUE]

\* DrawingCanvas.centerDocument
CenterDocument(v, width, height) ==
  [v EXCEPT !.panX = MathRound(Over(Minus(Num(v.vw), Times(Num(width), v.zoom)), Num(2))),
            !.panY = MathRound(Over(Minus(Num(v.vh), Times(Num(height), v.zoom)), Num(2)))]

\* DrawingCanvas.setHistory, with the listener of its 'history-change' event
SetHistory(w, entries, index) ==
  MarkDirty([w EXCEPT !.doc.history = entries, !.doc.historyIndex = index,
                      !.doc.historyVersion = 0])

\* serializeLayerFromImageData of every snapshot: the pixels become a PNG blob
RECURSIVE SerializeLayers(_)
SerializeLayers(ls) ==
  IF Len(ls) = 0 THEN <<>>
  ELSE <<[id |-> Head(ls).id, name |-> Head(ls).name, visible |-> Head(ls).visible,
          opacity |-> Head(ls).opacity, imageBlob |-> Head(ls).pixels]>>
       \o SerializeLayers(Tail(ls))

\* deserializeLayer of every serialized layer: the blob drawn on a canvas of the width
RECURSIVE DeserializeLayers(_, _)
DeserializeLayers(sls, width) ==
  IF Len(sls) = 0 THEN <<>>
  ELSE <<[id |-> Head(sls).id, name |-> Head(sls).name, visible |-> Head(sls).visible,
          opacity |-> Head(sls).opacity, pixels |-> ResizeRow(Head(sls).imageBlob, width)]>>
       \o DeserializeLayers(Tail(sls), width)

\* saveProjectState: the records of the entries, index startIndex + i
RECURSIVE HistoryRecords(_, _)
HistoryRecords(entries, startIndex) ==
  IF Len(entries) = 0 THEN <<>>
  ELSE <<[index |-> startIndex, entry |-> Head(entries)]>>
       \o HistoryRecords(Tail(entries), startIndex + 1)

\* loadProjectState: records.sort((a, b) => a.index - b.index), then the entries
RECURSIVE SortedEntries(_)
SortedEntries(records) ==
  IF Len(records) = 0 THEN <<>>
  ELSE LET first == Head(records)
           Earlier(r) == r.index < first.index
           NotEarlier(r) == r.index >= first.index
           EntryOf(rs) == [i \in 1..Len(rs) |-> rs[i].entry]
       IN EntryOf(SelectSeq(Tail(records), Earlier)) \o <<first.entry>>
          \o SortedEntries(SelectSeq(Tail(records), NotEarlier))

\* _loadProject: the largest n of the layers named 'Layer n'
RECURSIVE MaxLayerNumber(_)
MaxLayerNumber(ls) ==
  IF Len(ls) = 0 THEN 0
  ELSE IF Head(ls).name[1] = "Layer" THEN Max(Head(ls).name[2], MaxLayerNumber(Tail(ls)))
  ELSE MaxLayerNumber(Tail(ls))

\* _resetToFreshProject that leaves the history as it is
ResetToFreshProject_KeepHistory(w) ==
  LET layer == CreateLayer([w.doc EXCEPT !.layerCounter = 0])
  IN [w EXCEPT !.doc.layerCounter = 1,
               !.doc.uuidCounter = w.doc.uuidCounter + 1,
               !.doc.activeTool = "pencil",
               !.doc.strokeColor = Ink,
               !.doc.layers = <<[layer EXCEPT !.pixels = [c \in DOMAIN layer.pixels |-> White]]>>,
               !.doc.activeLayerId = layer.id,
               !.doc.layersPanelOpen = TRUE,
               !.app.dirty = FALSE,
               !.app.lastSavedHistoryLength = 0,
               !.app.lastSavedHistoryVersion = FORCE_FULL_HISTORY_SAVE]

\* DrawingApp._resetToFreshProject; no event of the user falls between its steps
\* (updateComplete resolves in a microtask)
ResetToFreshProject(w) ==
  LET layer == CreateLayer([w.doc EXCEPT !.layerCounter = 0])
      w1 == [w EXCEPT !.doc.layerCounter = 1,
                      !.doc.uuidCounter = w.doc.uuidCounter + 1,
                      !.doc.activeTool = "pencil",
                      !.doc.strokeColor = Ink,
                      !.doc.layers =
                        <<[layer EXCEPT !.pixels = [c \in DOMAIN layer.pixels |-> White]]>>,
                      !.doc.activeLayerId = layer.id,
                      !.doc.layersPanelOpen = TRUE]
  IN [SetHistory(w1, <<>>, -1) EXCEPT !.app.dirty = FALSE,
                                      !.app.lastSavedHistoryLength = 0,
                                      !.app.lastSavedHistoryVersion = FORCE_FULL_HISTORY_SAVE]

\* DrawingApp._loadProject once loadProjectState has settled: the state record is
\* missing, or a step throws (fails), or the project is loaded
LoadProject(w, projectId, fails) ==
  LET record == w.app.stateStore[projectId]
  IN IF record.projectId = 0 \/ fails THEN ResetToFreshProject(w)
     ELSE LET loaded == DeserializeLayers(record.layers, record.canvasWidth)
              loadedHistory == SortedEntries(w.app.historyStore[projectId])
              w1 == [w EXCEPT !.doc.layerCounter = MaxLayerNumber(loaded),
                              !.doc.activeTool = record.activeTool,
                              !.doc.strokeColor = record.strokeColor,
                              !.doc.layers = loaded,
                              !.doc.activeLayerId = record.activeLayerId,
                              !.doc.docWidth = record.canvasWidth,
                              !.doc.docHeight = record.canvasHeight,
                              !.doc.layersPanelOpen = record.layersPanelOpen]
              w2 == SetHistory(w1, loadedHistory, record.historyIndex)
          IN [w2 EXCEPT !.app.dirty = FALSE,
                        !.app.lastSavedHistoryLength = Len(loadedHistory),
                        !.app.lastSavedHistoryVersion = 0,
                        !.view = CenterDocument(w2.view, record.canvasWidth,
                                                record.canvasHeight)]

\* _save without the test of _saveInProgress
Save_Reentrant(w) ==
  IF w.app.currentProject = 0 \/ ~w.app.dirty THEN w
  ELSE LET versionChanged == w.doc.historyVersion # w.app.lastSavedHistoryVersion
           len == w.app.lastSavedHistoryLength
       IN [w EXCEPT
             !.app.saveInProgress = TRUE,
             !.app.saving = TRUE,
             !.app.taskCount = w.app.taskCount + 1,
             !.app.saveTask =
               [pc |-> "serialize",
                layerSnapshots |-> w.doc.layers,
                historySnapshot |-> w.doc.history,
                historyIndex |-> w.doc.historyIndex,
                historyVersion |-> w.doc.historyVersion,
                clearExistingHistory |-> versionChanged,
                entriesToSave |-> IF versionChanged THEN w.doc.history
                                  ELSE SubSeq(w.doc.history, len + 1, Len(w.doc.history)),
                startIndex |-> IF versionChanged THEN 0 ELSE len,
                stateRecord |-> NoRecord,
                projectId |-> 0,
                started |-> [projectId |-> w.app.currentProject,
                             activeLayerId |-> w.doc.activeLayerId,
                             canvasWidth |-> w.doc.docWidth,
                             canvasHeight |-> w.doc.docHeight]]]

\* DrawingApp._save up to its first await: the checks and the synchronous snapshot;
\* started is the document the save found (observation only)
Save(w) ==
  IF w.app.currentProject = 0 \/ ~w.app.dirty THEN w
  ELSE IF w.app.saveInProgress THEN [w EXCEPT !.app.saveTimer = TRUE]
  ELSE LET versionChanged == w.doc.historyVersion # w.app.lastSavedHistoryVersion
           len == w.app.lastSavedHistoryLength
       IN [w EXCEPT
             !.app.saveInProgress = TRUE,
             !.app.saving = TRUE,
             !.app.taskCount = w.app.taskCount + 1,
             !.app.saveTask =
               [pc |-> "serialize",
                layerSnapshots |-> w.doc.layers,
                historySnapshot |-> w.doc.history,
                historyIndex |-> w.doc.historyIndex,
                historyVersion |-> w.doc.historyVersion,
                clearExistingHistory |-> versionChanged,
                entriesToSave |-> IF versionChanged THEN w.doc.history
                                  ELSE SubSeq(w.doc.history, len + 1, Len(w.doc.history)),
                startIndex |-> IF versionChanged THEN 0 ELSE len,
                stateRecord |-> NoRecord,
                projectId |-> 0,
                started |-> [projectId |-> w.app.currentProject,
                             activeLayerId |-> w.doc.activeLayerId,
                             canvasWidth |-> w.doc.docWidth,
                             canvasHeight |-> w.doc.docHeight]]]

\* _save after the layers are serialized: the state record is built from the
\* snapshot and from this._currentProject and this._state as they are now
SaveSerialized(w) ==
  LET task == w.app.saveTask
  IN [w EXCEPT !.app.saveTask.pc = "thumbnail",
               !.app.saveTask.stateRecord =
                 [projectId |-> w.app.currentProject,
                  activeTool |-> w.doc.activeTool,
                  strokeColor |-> w.doc.strokeColor,
                  canvasWidth |-> w.doc.docWidth,
                  canvasHeight |-> w.doc.docHeight,
                  layersPanelOpen |-> w.doc.layersPanelOpen,
                  layers |-> SerializeLayers(task.layerSnapshots),
                  activeLayerId |-> w.doc.activeLayerId,
                  historyIndex |-> task.historyIndex]]

\* _save after the thumbnail: saveProjectState is called for this._currentProject
SaveThumbnail(w) ==
  [w EXCEPT !.app.saveTask.pc = "write", !.app.saveTask.projectId = w.app.currentProject]

\* doSwitch and doCreate after their await of _save
ContinueProjectTask(w) ==
  IF w.app.projectTask.pc # "awaitSave" THEN w
  ELSE IF w.app.projectTask.kind = "create"
  THEN [w EXCEPT !.app.projectTask.pc = "createProject"]
  ELSE IF w.app.projectTask.target \notin w.app.projectList
  THEN [w EXCEPT !.app.projectTask = NoTask]
  ELSE [w EXCEPT !.app.currentProject = w.app.projectTask.target,
                 !.app.projectTask.pc = "loadProjectState"]

\* _save when a step throws with the flags left set
SaveFailed_FlagsLeft(w) ==
  ContinueProjectTask([w EXCEPT !.app.saveTask = NoTask])

\* _save when a step throws (a quota error of the transaction): catch and finally,
\* then the caller that awaited the save
SaveFailed(w) ==
  ContinueProjectTask([w EXCEPT !.app.saving = FALSE, !.app.saveInProgress = FALSE,
                                !.app.saveTask = NoTask])

\* saveProjectState's transaction completes and _save goes on to listProjects
SaveWritten(w) ==
  LET task == w.app.saveTask
      records == HistoryRecords(task.entriesToSave, task.startIndex)
  IN [w EXCEPT
        !.app.stateStore[task.stateRecord.projectId] = task.stateRecord,
        !.app.historyStore[task.projectId] =
          IF task.clearExistingHistory THEN records ELSE @ \o records,
        !.app.dirty = FALSE,
        !.app.lastSavedHistoryLength = Len(task.historySnapshot),
        !.app.lastSavedHistoryVersion = task.historyVersion,
        !.app.saveTask.pc = "listProjects"]

\* _save after listProjects: finally, then the caller that awaited the save
SaveListed(w) ==
  ContinueProjectTask([w EXCEPT !.app.projectList = @ \cup {w.app.currentProject},
                                !.app.saving = FALSE, !.app.saveInProgress = FALSE,
                                !.app.saveTask = NoTask])

\* doSwitch or doCreate up to its first await: 'if (this._dirty) await this._save()'
StartProjectTask(w, kind, target) ==
  LET w1 == IF w.app.dirty THEN Save(w) ELSE w
      task == [pc |-> "awaitSave", kind |-> kind, target |-> target]
      w2 == [w1 EXCEPT !.app.projectTask = task,
                       !.app.taskCount = w1.app.taskCount + 1]
  IN IF w1.app.saveInProgress /\ ~w.app.saveInProgress THEN w2
     ELSE ContinueProjectTask(w2)

\* doCreate after createProjectInDB
CreateProjectDone(w) ==
  [w EXCEPT !.app.currentProject = w.app.projectTask.target,
            !.app.projectTask.pc = "listProjects"]

\* doCreate after listProjects
CreateProjectListed(w) ==
  MarkDirty(ResetToFreshProject(
    [w EXCEPT !.app.projectList = @ \cup {w.app.projectTask.target},
              !.app.projectTask = NoTask]))

\* context.setDocumentSize
SetDocumentSizeOf(w, width, height) ==
  IF width = w.doc.docWidth /\ height = w.doc.docHeight THEN w
  ELSE LET c == CommitFloat(w.doc)
           Resized(ls) == [i \in 1..Len(ls) |->
                             [ls[i] EXCEPT !.pixels = ResizeRow(@, width)]]
           w1 == [w EXCEPT !.doc = [c EXCEPT !.layers = Resized(c.layers),
                                             !.docWidth = width,
                                             !.docHeight = height]]
           w2 == SetHistory(w1, <<>>, -1)
       IN MarkDirty([w2 EXCEPT !.view = CenterDocument(w2.view, width, height)])

\* -------------------------------------------------------------- stamp store
\* the order of the index 'createdAt': by createdAt, then by the primary key id
StampBefore(a, b) ==
  a.createdAt < b.createdAt \/ (a.createdAt = b.createdAt /\ a.id < b.id)

\* IDBObjectStore.add(entry)
StoreAdd(store, entry) ==
  LET Earlier(e) == StampBefore(e, entry)
      Later(e) == ~StampBefore(e, entry)
  IN SelectSeq(store, Earlier) \o <<entry>> \o SelectSeq(store, Later)

\* IDBObjectStore.delete(id)
StoreDelete(store, id) ==
  LET Other(e) == e.id # id
  IN SelectSeq(store, Other)

\* getRecentStamps that walks the index forward
GetRecentStamps_Forward(store, limit) ==
  SubSeq(store, 1, Min(limit, Len(store)))

\* getRecentStamps: the cursor walks the index backward and stops at the limit
GetRecentStamps(store, limit) ==
  [i \in 1..Min(limit, Len(store)) |-> store[Len(store) - i + 1]]

\* addStamp after getRecentStamps(MAX_STAMPS + 10): all.slice(MAX_STAMPS) is deleted
RECURSIVE DeleteAll(_, _)
DeleteAll(store, toDelete) ==
  IF Len(toDelete) = 0 THEN store
  ELSE DeleteAll(StoreDelete(store, Head(toDelete).id), Tail(toDelete))

\* ------------------------------------------------------------------ inputs
Points == 0..DocCells            \* pointer positions, in document coordinates
OutsidePoints == {-1, DocCells + 1}   \* positions of the viewport beside the document
Tools == {"pencil", "select"}
OpacityValues == {100, 50}

\* No pointer gesture is in progress: a click on a panel or a toolbar is possible.
PointerIdle ==
  ~drawing /\ ~selectionDrawing /\ ~floatMoving /\ ~floatResizing /\ sliderLayer = 0

\* The model's bound on the history: a gesture or an operation that will record
\* starts only while the log and its version counter are below their bounds.
MayRecord == Len(history) < MaxHistoryLen /\ historyVersion < MaxVersion

\* The same for the operations of the layers panel.
MayRecordLayer == Len(history) < MaxLayerHistory /\ historyVersion < MaxVersion

Op(name, arg) == [op |-> name, arg |-> arg]

Init ==
  /\ layers = <<[id |-> 1, name |-> LayerName(1), visible |-> TRUE, opacity |-> 100,
                 pixels |-> WhitePixels]>>
  /\ activeLayerId = 1
  /\ activeTool = "pencil"
  /\ strokeColor = Ink
  /\ layerCounter = 1
  /\ uuidCounter = 1
  /\ history = <<>>
  /\ historyIndex = -1
  /\ historyVersion = 0
  /\ beforeDrawData = NoData
  /\ float = NoFloat
  /\ drawing = FALSE
  /\ selectionDrawing = FALSE
  /\ startPoint = NoPoint
  /\ floatMoving = FALSE
  /\ floatDragOffset = NoPoint
  /\ clipboard = NoClipboard
  /\ opacityBefore = NoOpacity
  /\ sliderLayer = 0
  /\ floatSource = NoSource
  /\ currentRect = NoRect
  /\ floatResizing = FALSE
  /\ floatResizeHandle = NoHandle
  /\ floatResizeOrigin = NoResizeOrigin
  /\ resizeCount = 0
  /\ docWidth = documentWidth
  /\ docHeight = documentHeight
  /\ layersPanelOpen = TRUE
  /\ zoom = Num(1)
  /\ vw = 800
  /\ vh = 600
  /\ panX = MathRound(Over(Minus(Num(800), Times(Num(documentWidth), Num(1))), Num(2)))
  /\ panY = MathRound(Over(Minus(Num(600), Times(Num(documentHeight), Num(1))), Num(2)))
  /\ panning = FALSE
  /\ panStart = NoPanStart
  /\ viewOps = 0
  /\ currentProject = 1
  /\ projectList = {1}
  /\ dirty = TRUE
  /\ saveTimer = TRUE
  /\ saveInProgress = FALSE
  /\ saving = FALSE
  /\ lastSavedHistoryLength = 0
  /\ lastSavedHistoryVersion = 0
  /\ stateStore = [p \in 1..MaxProjects |-> NoRecord]
  /\ historyStore = [p \in 1..MaxProjects |-> <<>>]
  /\ saveTask = NoTask
  /\ projectTask = NoTask
  /\ taskCount = 0
  /\ stampStore = <<>>
  /\ stampClock = 0
  /\ stampTask = NoTask
  /\ stampPruned = -1
  /\ stampOps = [adds |-> 0, deletes |-> 0]
  /\ lastOp = Op("init", "")

\* ------------------------------------------------- pointer events, brushes
\* DrawingCanvas._drawBrushAt with the pencil: the cell under the pointer takes the
\* stroke colour
DrawBrushAt(s, c) ==
  IF ~HasActiveLayerCtx(s) THEN s
  ELSE SetActivePixels(s, [ActivePixels(s) EXCEPT ![c] = s.strokeColor])

\* DrawingCanvas._onPointerDown, brush tools
PointerDownBrush(c) ==
  /\ activeTool = "pencil"
  /\ PointerIdle
  /\ Becomes(DrawBrushAt(CaptureBeforeDraw([Cur EXCEPT !.drawing = TRUE,
                                                       !.startPoint = c - 1]), c),
             Op("pointerdown", "brush"))

\* DrawingCanvas._onPointerMove, brush tools
PointerMoveBrush(c) ==
  /\ activeTool = "pencil"
  /\ drawing
  /\ HasActiveLayerCtx(Cur)
  /\ ActivePixels(Cur)[c] # strokeColor
  /\ Becomes(DrawBrushAt(Cur, c), Op("pointermove", "brush"))

\* DrawingCanvas._onPointerUp, brush tools (pointerleave runs the same handler)
PointerUpBrush ==
  /\ activeTool = "pencil"
  /\ drawing
  /\ Becomes(PushDrawHistory([Cur EXCEPT !.drawing = FALSE, !.startPoint = NoPoint]),
             Op("pointerup", "brush"))

\* ----------------------------------------------- pointer events, selection
\* DrawingCanvas._handleSelectPointerDown
HandleSelectPointerDownOf(s, p) ==
  IF IsInsideFloat(s, p)
  THEN [s EXCEPT !.floatMoving = TRUE, !.floatDragOffset = p - s.float.x]
  ELSE [CommitFloat(s) EXCEPT !.selectionDrawing = TRUE, !.startPoint = p]

\* _handleSelectPointerMove with the far edge dragged along instead of the origin
HandleSelectPointerMoveOf_Stretch(s, p) ==
  IF s.floatMoving /\ s.float # NoFloat /\ s.floatDragOffset # NoPoint
  THEN [s EXCEPT !.float.w = s.float.w + (p - s.floatDragOffset - s.float.x),
                 !.currentRect.w = Plus(s.currentRect.w,
                                        Num(p - s.floatDragOffset - s.float.x))]
  ELSE s

\* DrawingCanvas._handleSelectPointerMove
HandleSelectPointerMoveOf(s, p) ==
  IF s.floatMoving /\ s.float # NoFloat /\ s.floatDragOffset # NoPoint
  THEN LET x == Plus(s.currentRect.x, Num(p - s.floatDragOffset - s.float.x))
       IN [s EXCEPT !.currentRect.x = x, !.float.x = MathRound(x).n]
  ELSE s

\* DrawingCanvas._handleSelectPointerUp
\* _handleSelectPointerUp that lifts every rectangle that is not empty
HandleSelectPointerUpOf_LiftThin(s, p) ==
  IF s.floatResizing
  THEN [s EXCEPT !.floatResizing = FALSE, !.floatResizeHandle = NoHandle,
                 !.floatResizeOrigin = NoResizeOrigin]
  ELSE IF s.floatMoving
  THEN [s EXCEPT !.floatMoving = FALSE, !.floatDragOffset = NoPoint]
  ELSE IF s.selectionDrawing /\ s.startPoint # NoPoint
  THEN LET x == Min(s.startPoint, p)
           w == Max(s.startPoint, p) - x
           s1 == [s EXCEPT !.selectionDrawing = FALSE, !.startPoint = NoPoint]
       IN IF w < 1 THEN s1 ELSE LiftToFloat(s1, x, w)
  ELSE s

HandleSelectPointerUpOf(s, p) ==
  IF s.floatResizing
  THEN [s EXCEPT !.floatResizing = FALSE, !.floatResizeHandle = NoHandle,
                 !.floatResizeOrigin = NoResizeOrigin]
  ELSE IF s.floatMoving
  THEN [s EXCEPT !.floatMoving = FALSE, !.floatDragOffset = NoPoint]
  ELSE IF s.selectionDrawing /\ s.startPoint # NoPoint
  THEN LET x == Min(s.startPoint, p)
           w == Max(s.startPoint, p) - x
           s1 == [s EXCEPT !.selectionDrawing = FALSE, !.startPoint = NoPoint]
       IN IF w < 2 THEN s1 ELSE LiftToFloat(s1, x, w)
  ELSE s

SelectPointerDown(p) ==
  /\ activeTool = "select"
  /\ PointerIdle
  /\ Becomes(HandleSelectPointerDownOf(Cur, p),
             Op("pointerdown", IF IsInsideFloat(Cur, p) THEN "move"
                               ELSE IF float # NoFloat THEN "commit" ELSE "select"))

SelectPointerMove(p) ==
  /\ activeTool = "select"
  /\ floatMoving
  /\ HandleSelectPointerMoveOf(Cur, p) # Cur
  /\ Becomes(HandleSelectPointerMoveOf(Cur, p), Op("pointermove", "move"))

SelectPointerUp(p) ==
  /\ activeTool = "select"
  /\ floatMoving \/ selectionDrawing
  /\ Becomes(HandleSelectPointerUpOf(Cur, p),
             Op("pointerup", IF floatMoving THEN "move"
                             ELSE IF Max(startPoint, p) - Min(startPoint, p) < 2
                                  THEN "degenerate" ELSE "lift"))

\* -------------------------------------------------------------- composite
\* The 2D context of the display canvas with what is painted on the canvas (the paints
\* since the last opaque fill of the whole canvas, each with the transform and the
\* alpha it was made under), the cached checkerboard pattern of the canvas element and
\* the thumbnails of the layers panel, as they are before the first composite.
Display0 ==
  [transform |-> [scale |-> Num(1), tx |-> Num(0), ty |-> Num(0)], globalAlpha |-> 100,
   stack |-> <<>>, painted |-> <<>>, checkerboardPattern |-> FALSE, thumbnails |-> <<>>]

\* fillRect, drawImage or strokeRect under the current transform and alpha
Paint(d, what, arg) ==
  [d EXCEPT !.painted = Append(@, [what |-> what, arg |-> arg,
                                  transform |-> d.transform, alpha |-> d.globalAlpha])]

\* the loop of composite over every layer, hidden ones included
RECURSIVE DrawLayers_AllLayers(_, _)
DrawLayers_AllLayers(d, ls) ==
  IF ls = <<>> THEN d
  ELSE DrawLayers_AllLayers(
         [Paint([d EXCEPT !.globalAlpha = Head(ls).opacity], "layer", Head(ls).pixels)
            EXCEPT !.globalAlpha = 100],
         Tail(ls))

\* composite: for (const layer of layers) { if (!layer.visible) continue; ... }
RECURSIVE DrawLayers(_, _)
DrawLayers(d, ls) ==
  IF ls = <<>> THEN d
  ELSE IF ~Head(ls).visible THEN DrawLayers(d, Tail(ls))
  ELSE DrawLayers(
         [Paint([d EXCEPT !.globalAlpha = Head(ls).opacity], "layer", Head(ls).pixels)
            EXCEPT !.globalAlpha = 100],
         Tail(ls))

\* DrawingCanvas.composite on the document s, the viewport v and the display d, with
\* the listener of the 'composited' event (LayersPanel._updateThumbnails)
CompositeOf(s, v, d) ==
  LET background == [what |-> "background", arg |-> <<v.vw, v.vh>>,
                     transform |-> d.transform, alpha |-> d.globalAlpha]
      d1 == IF d.transform = Display0.transform /\ d.globalAlpha = 100
            THEN [d EXCEPT !.painted = <<background>>]
            ELSE Paint(d, "background", <<v.vw, v.vh>>)
      d2 == [d1 EXCEPT !.stack = Append(@, [transform |-> d1.transform,
                                            globalAlpha |-> d1.globalAlpha]),
                       !.transform = [scale |-> Times(d1.transform.scale, v.zoom),
                                      tx |-> Plus(d1.transform.tx,
                                                  Times(d1.transform.scale, v.panX)),
                                      ty |-> Plus(d1.transform.ty,
                                                  Times(d1.transform.scale, v.panY))]]
      d3 == [Paint(d2, "checkerboard", <<documentWidth, documentHeight>>)
               EXCEPT !.checkerboardPattern = TRUE]
      d4 == DrawLayers(d3, s.layers)
      d5 == Paint(d4, "border", <<documentWidth + 1, documentHeight + 1>>)
      d6 == [d5 EXCEPT !.transform = d5.stack[Len(d5.stack)].transform,
                       !.globalAlpha = d5.stack[Len(d5.stack)].globalAlpha,
                       !.stack = SubSeq(d5.stack, 1, Len(d5.stack) - 1)]
      thumbnails == [i \in 1..Len(s.layers) |->
                       LET layer == s.layers[Len(s.layers) + 1 - i]
                       IN [pixels |-> layer.pixels,
                           alpha |-> IF layer.visible THEN layer.opacity ELSE 100]]
  IN [doc |-> s, view |-> v, display |-> [d6 EXCEPT !.thumbnails = thumbnails]]

\* positions of the pointer during a resize drag, in document coordinates
ResizePoints ==
  {[x |-> a, y |-> b] : a \in {Num(-1), Num(0), Frac(1, 2), Num(3)}, b \in {Num(0), Num(3)}}

\* _onPointerDown with the select tool, on the handle that HitTestHandle finds at the
\* centre of a handle
ResizePointerDown(handle) ==
  /\ activeTool = "select"
  /\ PointerIdle
  /\ float # NoFloat
  /\ Becomes(HandleResizePointerDownOf(Cur, HandlePoint(currentRect, handle), zoom),
             Op("pointerdown", "resize"))

\* _onPointerMove with the select tool during a resize drag
ResizePointerMove(p) ==
  /\ activeTool = "select"
  /\ floatResizing
  /\ Becomes(ApplyResize(Cur, p, zoom), Op("pointermove", "resize"))

\* _onPointerUp with the select tool during a resize drag
ResizePointerUp ==
  /\ activeTool = "select"
  /\ floatResizing
  /\ Becomes(HandleSelectPointerUpOf(Cur, 0), Op("pointerup", "resize"))

\* --------------------------------------------------- keyboard and toolbar
\* Ctrl+Z, or the toolbar's undo button
Undo ==
  /\ historyIndex >= 0
  /\ Becomes(UndoOf(Cur),
             Op("undo", EntryAt(CommitFloat(Cur).history, CommitFloat(Cur).historyIndex).type))

\* Ctrl+Y, or the toolbar's redo button
Redo ==
  /\ historyIndex < Len(history) - 1
  /\ Becomes(RedoOf(Cur),
             Op("redo", EntryAt(CommitFloat(Cur).history,
                                CommitFloat(Cur).historyIndex + 1).type))

\* the toolbar's clear button
ClearCanvas ==
  /\ PointerIdle
  /\ Becomes(ClearCanvasOf(Cur), Op("clearCanvas", ""))

\* Ctrl+C
CopySelection ==
  /\ float # NoFloat
  /\ CopySelectionOf(Cur) # Cur
  /\ Becomes(CopySelectionOf(Cur), Op("copy", ""))

\* Ctrl+X
CutSelection ==
  /\ float # NoFloat
  /\ Becomes(CutSelectionOf(Cur), Op("cut", ""))

\* Ctrl+V
PasteSelection ==
  /\ clipboard # NoClipboard
  /\ Becomes(PasteSelectionOf(Cur), Op("paste", IF float # NoFloat THEN "commit" ELSE ""))

\* Delete or Backspace with the select tool
DeleteSelection ==
  /\ activeTool = "select"
  /\ float # NoFloat
  /\ Becomes(DeleteSelectionOf(Cur), Op("delete", ""))

\* Escape: DrawingCanvas.clearSelection
ClearSelection ==
  /\ float # NoFloat
  /\ Becomes(CommitFloat(Cur), Op("escape", "commit"))

\* a key is pressed somewhere in the application
KeyDown(e) ==
  /\ PointerIdle
  /\ KeyDownOf(Cur, e) # Cur
  /\ Becomes(KeyDownOf(Cur, e), Op("keydown", e.target))

\* context.setStrokeColor, from the colour picker
SetStrokeColor(color) ==
  /\ PointerIdle
  /\ color # strokeColor
  /\ Becomes([Cur EXCEPT !.strokeColor = color], Op("setStrokeColor", ""))

\* a click on a toolbar tool
SetTool(tool) ==
  /\ PointerIdle
  /\ tool # activeTool
  /\ Becomes(SetToolOf(Cur, tool), Op("setTool", IF float # NoFloat THEN "commit" ELSE ""))

\* ----------------------------------------------------------- layers panel
AddLayer ==
  /\ PointerIdle
  /\ Becomes(AddLayerOf(Cur), Op("addLayer", ""))

\* the panel's delete button deletes the active layer
DeleteLayer ==
  /\ PointerIdle
  /\ Len(layers) > 1
  /\ Becomes(DeleteLayerOf(Cur, activeLayerId), Op("deleteLayer", ""))

\* the rejected deletion of the only layer
DeleteLastLayer ==
  /\ PointerIdle
  /\ Len(layers) <= 1
  /\ lastOp # Op("deleteLayer", "rejected")
  /\ Becomes(DeleteLayerOf(Cur, activeLayerId), Op("deleteLayer", "rejected"))

SetActiveLayer(id) ==
  /\ PointerIdle
  /\ HasLayer(layers, id)
  /\ id # activeLayerId \/ float # NoFloat
  /\ Becomes(SetActiveLayerOf(Cur, id),
             Op("setActiveLayer", IF float # NoFloat THEN "commit" ELSE ""))

\* the button that opens and closes the layers panel
ToggleLayersPanel ==
  /\ PointerIdle
  /\ Becomes(ToggleLayersPanelOf(Cur), Op("toggleLayersPanel", ""))

\* LayersPanel._toggleVisibility
ToggleVisibility(id) ==
  /\ PointerIdle
  /\ HasLayer(layers, id)
  /\ Becomes(SetLayerVisibilityOf(Cur, id, ~FindLayer(layers, id).visible),
             Op("setLayerVisibility", ""))

\* LayersPanel._moveUp, _moveDown and the drop of a dragged row
ReorderLayer(id, newIndex) ==
  /\ PointerIdle
  /\ HasLayer(layers, id)
  /\ newIndex \in 0..(Len(layers) - 1)
  /\ newIndex # FindIndex(layers, id)
  /\ Becomes(ReorderLayerOf(Cur, id, newIndex), Op("reorderLayer", ""))

\* LayersPanel._commitRename
RenameLayer(id, name) ==
  /\ PointerIdle
  /\ HasLayer(layers, id)
  /\ name # FindLayer(layers, id).name
  /\ Becomes(RenameLayerOf(Cur, id, name), Op("renameLayer", ""))

\* LayersPanel._onOpacityPointerDown
OpacityPointerDown(id) ==
  /\ PointerIdle
  /\ HasLayer(layers, id)
  /\ Becomes([Cur EXCEPT !.opacityBefore = FindLayer(layers, id).opacity,
                         !.sliderLayer = id],
             Op("opacityPointerDown", ""))

\* LayersPanel._onOpacityInput
OpacityInput(value) ==
  /\ sliderLayer # 0
  /\ HasLayer(layers, sliderLayer)
  /\ value # FindLayer(layers, sliderLayer).opacity
  /\ Becomes(SetLayerOpacityOf(Cur, sliderLayer, value), Op("opacityInput", ""))

\* the slider is released: LayersPanel._onOpacityChange with the slider's value
OpacityChange ==
  /\ sliderLayer # 0
  /\ HasLayer(layers, sliderLayer)
  /\ Becomes([OnOpacityChangeOf(Cur, sliderLayer, FindLayer(layers, sliderLayer).opacity)
              EXCEPT !.sliderLayer = 0],
             Op("opacityChange", ""))

\* ---------------------------------------------------- viewport handlers
\* sizes of the canvas element, positions of the pointer on it and wheel deltas
ViewportSizes == {<<800, 600>>, <<80, 60>>, <<9600, 7200>>}
CursorPositions == {<<0, 0>>, <<400, 300>>}
WheelDirections == {1, -1}
WheelDeltas == {<<100, 0>>, <<0, -100>>}

ViewBecomes(v, op) ==
  /\ zoom' = v.zoom
  /\ panX' = v.panX
  /\ panY' = v.panY
  /\ vw' = v.vw
  /\ vh' = v.vh
  /\ panning' = v.panning
  /\ panStart' = v.panStart
  /\ viewOps' = viewOps + 1
  /\ lastOp' = op
  /\ UNCHANGED canvasVars
  /\ UNCHANGED appVars
  /\ UNCHANGED stampVars

\* the zoom-in button of the toolbar
ZoomIn ==
  /\ ~panning
  /\ ViewBecomes(ZoomInOf(View), Op("zoomIn", IF ZoomInOf(View) = View THEN "rejected" ELSE ""))

\* the zoom-out button of the toolbar
ZoomOut ==
  /\ ~panning
  /\ ViewBecomes(ZoomOutOf(View),
                 Op("zoomOut", IF ZoomOutOf(View) = View THEN "rejected" ELSE ""))

\* the fit button of the toolbar
ZoomToFit ==
  /\ ~panning
  /\ ViewBecomes(ZoomToFitOf(View), Op("zoomToFit", ""))

\* a wheel event with Ctrl or Meta held
WheelZoom(c, direction) ==
  ViewBecomes(OnWheelZoom(View, c[1], c[2], direction),
              Op("wheel", IF OnWheelZoom(View, c[1], c[2], direction) = View
                          THEN "rejected" ELSE "zoom"))

\* a wheel event without a modifier
WheelPan(delta) ==
  ViewBecomes(OnWheelPan(View, delta[1], delta[2]), Op("wheel", "pan"))

\* _onPointerDown with the middle button
PanPointerDown(c) ==
  /\ ~panning
  /\ PointerIdle
  /\ ViewBecomes(StartPan(View, c[1], c[2]), Op("pointerdown", "pan"))

\* _onPointerMove while panning
PanPointerMove(c) ==
  /\ panning
  /\ ViewBecomes(UpdatePan(View, c[1], c[2]), Op("pointermove", "pan"))

\* _onPointerUp while panning
PanPointerUp ==
  /\ panning
  /\ ViewBecomes(EndPan(View), Op("pointerup", "pan"))

\* the ResizeObserver callback
ViewportResize(size) ==
  /\ size # <<vw, vh>>
  /\ ViewBecomes(ResizeToFit(View, size[1], size[2]), Op("resize", ""))

\* ------------------------------------------- projects and the save protocol
\* what a handler of DrawingApp leaves behind
WorldBecomes(w, op) ==
  /\ DocBecomes(w.doc)
  /\ zoom' = w.view.zoom
  /\ panX' = w.view.panX
  /\ panY' = w.view.panY
  /\ vw' = w.view.vw
  /\ vh' = w.view.vh
  /\ panning' = w.view.panning
  /\ panStart' = w.view.panStart
  /\ currentProject' = w.app.currentProject
  /\ projectList' = w.app.projectList
  /\ dirty' = w.app.dirty
  /\ saveTimer' = w.app.saveTimer
  /\ saveInProgress' = w.app.saveInProgress
  /\ saving' = w.app.saving
  /\ lastSavedHistoryLength' = w.app.lastSavedHistoryLength
  /\ lastSavedHistoryVersion' = w.app.lastSavedHistoryVersion
  /\ stateStore' = w.app.stateStore
  /\ historyStore' = w.app.historyStore
  /\ saveTask' = w.app.saveTask
  /\ projectTask' = w.app.projectTask
  /\ taskCount' = w.app.taskCount
  /\ lastOp' = op
  /\ UNCHANGED viewOps
  /\ UNCHANGED stampVars

\* the debounce timer of _markDirty fires: () => this._save()
SaveTimerFires ==
  /\ saveTimer
  /\ taskCount < MaxTasks \/ saveInProgress \/ ~dirty
  /\ WorldBecomes(Save([World EXCEPT !.app.saveTimer = FALSE]), Op("save", "timer"))

\* the layers of the save in flight are serialized
SaveSerializes ==
  /\ saveTask.pc = "serialize"
  /\ WorldBecomes(SaveSerialized(World), Op("save", "step"))

\* the thumbnail of the save in flight is made (or its error swallowed)
SaveThumbnails ==
  /\ saveTask.pc = "thumbnail"
  /\ WorldBecomes(SaveThumbnail(World), Op("save", "step"))

\* the transaction of saveProjectState completes
SaveWrites ==
  /\ saveTask.pc = "write"
  /\ WorldBecomes(SaveWritten(World), Op("save", "step"))

\* listProjects answers the save in flight
SaveLists ==
  /\ saveTask.pc = "listProjects"
  /\ WorldBecomes(SaveListed(World), Op("save", "step"))

\* a step of the save in flight throws before the state is written: serialization,
\* or the transaction (quota)
SaveFails ==
  /\ saveTask.pc \in {"serialize", "write"}
  /\ WorldBecomes(SaveFailed(World), Op("save", "failed"))

\* context.switchProject, from the project dropdown
SwitchProject(id) ==
  /\ PointerIdle
  /\ projectTask = NoTask
  /\ taskCount < MaxTasks
  /\ id # currentProject
  /\ WorldBecomes(StartProjectTask(World, "switch", id), Op("switchProject", ""))

\* context.createProject, from the project dropdown; createProjectInDB will hand out
\* the next id
CreateProject ==
  /\ PointerIdle
  /\ projectTask = NoTask
  /\ taskCount < MaxTasks
  /\ Cardinality(projectList) < MaxProjects
  /\ WorldBecomes(StartProjectTask(World, "create", Cardinality(projectList) + 1),
                  Op("createProject", ""))

\* createProjectInDB answers
CreateProjectStored ==
  /\ projectTask.pc = "createProject"
  /\ WorldBecomes(CreateProjectDone(World), Op("createProject", "stored"))

\* listProjects answers createProject, which resets the document
CreateProjectResets ==
  /\ projectTask.pc = "listProjects"
  /\ WorldBecomes(CreateProjectListed(World), Op("createProject", "reset"))

\* loadProjectState answers, or throws, and _loadProject runs to its end
LoadProjectSettles(fails) ==
  /\ projectTask.pc = "loadProjectState"
  /\ WorldBecomes([LoadProject(World, projectTask.target, fails)
                     EXCEPT !.app.projectTask = NoTask],
                  Op("loadProject",
                     IF stateStore[projectTask.target] = NoRecord THEN "missing"
                     ELSE IF fails THEN "failed" ELSE "loaded"))

\* the document-size control of the settings bar
SetDocumentSize(width, height) ==
  /\ PointerIdle
  /\ width # docWidth \/ height # docHeight
  /\ taskCount < MaxTasks
  /\ WorldBecomes([SetDocumentSizeOf(World, width, height)
                     EXCEPT !.app.taskCount = taskCount + 1],
                  Op("setDocumentSize", ""))

\* ------------------------------------------------------------- stamp upload
StampBecomes(store, clock, task, pruned, ops, op) ==
  /\ stampStore' = store
  /\ stampClock' = clock
  /\ stampTask' = task
  /\ stampPruned' = pruned
  /\ stampOps' = ops
  /\ lastOp' = op
  /\ UNCHANGED canvasVars
  /\ UNCHANGED viewVars
  /\ UNCHANGED appVars

\* addStamp up to the end of its first transaction: the entry gets Date.now(), which
\* has advanced since the last call or not, and a random id, which sorts below or
\* above the ids of the same tick
AddStampAdds(ticks, idBelow) ==
  /\ stampTask = NoTask
  /\ ~ticks => Len(stampStore) - Cardinality({stampStore[i].createdAt :
                                               i \in 1..Len(stampStore)}) < MaxStampTies
  /\ LET entry == [id |-> IF idBelow THEN 0 - (stampOps.adds + 1) ELSE stampOps.adds + 1,
                   createdAt |-> IF ticks THEN stampClock + 1 ELSE stampClock]
     IN StampBecomes(StoreAdd(stampStore, entry), entry.createdAt,
                     [pc |-> "getRecentStamps", entry |-> entry], stampPruned,
                     [stampOps EXCEPT !.adds = @ + 1], Op("addStamp", "added"))

\* addStamp after 'await getRecentStamps(MAX_STAMPS + 10)'
AddStampReads ==
  /\ stampTask.pc = "getRecentStamps"
  /\ LET all == GetRecentStamps(stampStore, MAX_STAMPS + 10)
     IN StampBecomes(stampStore, stampClock,
                     IF Len(all) > MAX_STAMPS
                     THEN [pc |-> "prune", entry |-> stampTask.entry,
                           toDelete |-> SubSeq(all, MAX_STAMPS + 1, Len(all))]
                     ELSE NoTask,
                     stampPruned, stampOps,
                     Op("addStamp", IF Len(all) > MAX_STAMPS THEN "read" ELSE "done"))

\* addStamp after the transaction that deletes the oldest entries
AddStampPrunes ==
  /\ stampTask.pc = "prune"
  /\ LET gone == {i \in 1..Len(stampTask.toDelete) :
                   \E j \in 1..Len(stampStore) : stampStore[j].id = stampTask.toDelete[i].id}
         times == {stampTask.toDelete[i].createdAt : i \in gone} \cup {stampPruned}
     IN StampBecomes(DeleteAll(stampStore, stampTask.toDelete), stampClock, NoTask,
                     CHOOSE t \in times : \A u \in times : u <= t,
                     stampOps, Op("addStamp", "pruned"))

\* a click on the X of a recent stamp: deleteStamp(id)
DeleteStamp(id) ==
  /\ \E i \in 1..Len(stampStore) : stampStore[i].id = id
  /\ StampBecomes(StoreDelete(stampStore, id), stampClock, stampTask, stampPruned,
                  [stampOps EXCEPT !.deletes = @ + 1], Op("deleteStamp", ""))

\* ---------------------------------------------------------- specifications
\* The canvas: brushes, the floating selection, the clipboard and the history,
\* over a layer stack that grows and whose active layer changes.
Next ==
  \/ MayRecord /\ \E c \in Cells : PointerDownBrush(c)
  \/ \E c \in Cells : PointerMoveBrush(c)
  \/ PointerUpBrush
  \/ MayRecord /\ \E p \in Points : SelectPointerDown(p)
  \/ \E p \in Points : SelectPointerMove(p)
  \/ \E p \in Points : SelectPointerUp(p)
  \/ Undo
  \/ Redo
  \/ MayRecord /\ ClearCanvas
  \/ CopySelection
  \/ CutSelection
  \/ MayRecord /\ PasteSelection
  \/ DeleteSelection
  \/ ClearSelection
  \/ \E tool \in Tools : SetTool(tool)
  \/ MayRecord /\ uuidCounter < MaxLayersCreated /\ AddLayer
  \/ \E id \in 1..MaxLayersCreated : SetActiveLayer(id)

Spec == Init /\ [][Next]_vars

\* The layer stack: every structural operation of the layers panel, brush strokes,
\* undo and redo.
NextLayers ==
  \/ MayRecordLayer /\ \E c \in Cells : PointerDownBrush(c)
  \/ PointerUpBrush
  \/ Undo
  \/ Redo
  \/ MayRecordLayer /\ uuidCounter < MaxLayersCreated /\ AddLayer
  \/ MayRecordLayer /\ DeleteLayer
  \/ DeleteLastLayer
  \/ \E id \in 1..MaxLayersCreated : SetActiveLayer(id)
  \/ MayRecordLayer /\ \E id \in 1..MaxLayersCreated : ToggleVisibility(id)
  \/ MayRecordLayer /\ \E id \in 1..MaxLayersCreated :
                         \E i \in 0..(MaxLayersCreated - 1) : ReorderLayer(id, i)
  \/ MayRecordLayer /\ \E id \in 1..MaxLayersCreated : RenameLayer(id, CustomName)
  \/ MayRecordLayer /\ \E id \in 1..MaxLayersCreated : OpacityPointerDown(id)
  \/ \E v \in OpacityValues : OpacityInput(v)
  \/ OpacityChange

SpecLayers == Init /\ [][NextLayers]_vars

\* The history cap: brush strokes in a row, every stroke with a stroke colour of its
\* own, then undo and redo from the toolbar.
CapColors == Ink..(Ink + maxHistory + ExtraRecords - 1)

NextCap ==
  \/ /\ ~canRedoOf(Cur)
     /\ ActivePixels(Cur)[1] = strokeColor
     /\ \E color \in CapColors : color = strokeColor + 1 /\ SetStrokeColor(color)
  \/ ~canRedoOf(Cur) /\ ActivePixels(Cur)[1] # strokeColor /\ PointerDownBrush(1)
  \/ PointerUpBrush
  \/ PointerIdle /\ Undo
  \/ PointerIdle /\ Redo

SpecCap == Init /\ [][NextCap]_vars

\* One document edited by strokes, new layers and visibility toggles, and the undo
\* and redo of these.
MayRecordScenario == Len(history) < MaxScenarioHistory /\ historyVersion < MaxVersion

NextScenario ==
  \/ MayRecordScenario /\ \E c \in Cells : PointerDownBrush(c)
  \/ PointerUpBrush
  \/ MayRecordScenario /\ uuidCounter < MaxLayersCreated /\ AddLayer
  \/ MayRecordScenario /\ \E id \in 1..MaxLayersCreated : ToggleVisibility(id)
  \/ Undo
  \/ Redo

SpecScenario == Init /\ [][NextScenario]_vars

\* The select tool next to a brush: strokes, selection drags that lift, drags that
\* move the float, its commit by Escape and its discard, undo and redo.
MayRecordSelect == Len(history) < MaxHistoryLen /\ historyVersion < MaxSelectVersion

NextSelect ==
  \/ MayRecordSelect /\ \E c \in Cells : PointerDownBrush(c)
  \/ PointerUpBrush
  \/ \E tool \in Tools : SetTool(tool)
  \/ MayRecordSelect /\ \E p \in Points : SelectPointerDown(p)
  \/ \E p \in Points : SelectPointerMove(p)
  \/ \E p \in Points \cup OutsidePoints : SelectPointerUp(p)
  \/ DeleteSelection
  \/ ClearSelection
  \/ Undo
  \/ Redo

SpecSelect == Init /\ [][NextSelect]_vars

\* The keyboard: strokes and selection drags with the pointer, every other operation
\* by a key pressed on the canvas, on the slider or in one of the text inputs.
NextKeys ==
  \/ MayRecordSelect /\ \E c \in Cells : PointerDownBrush(c)
  \/ PointerUpBrush
  \/ \E tool \in Tools : SetTool(tool)
  \/ MayRecordSelect /\ \E p \in Points : SelectPointerDown(p)
  \/ \E p \in Points : SelectPointerUp(p)
  \/ MayRecordSelect /\ \E e \in KeyEvents : KeyDown(e)

SpecKeys == Init /\ [][NextKeys]_vars

\* The viewport: zoom by the buttons and the wheel, pan by the wheel and by a drag,
\* fit, and the resize of the canvas element.
MayChangeView == viewOps < MaxViewOps

NextView ==
  \/ MayChangeView /\ ZoomIn
  \/ MayChangeView /\ ZoomOut
  \/ MayChangeView /\ ZoomToFit
  \/ MayChangeView /\ \E c \in CursorPositions : \E d \in WheelDirections : WheelZoom(c, d)
  \/ MayChangeView /\ \E delta \in WheelDeltas : WheelPan(delta)
  \/ MayChangeView /\ \E c \in CursorPositions : PanPointerDown(c)
  \/ MayChangeView /\ \E c \in CursorPositions : PanPointerMove(c)
  \/ MayChangeView /\ PanPointerUp
  \/ MayChangeView /\ \E size \in ViewportSizes : ViewportResize(size)

SpecView == Init /\ [][NextView]_vars

\* The resize of a float: a stroke, the selection drag that lifts, drags of the
\* handles, Escape, and the zoom that scales the handles and the minimum size.
MayRecordResize == Len(history) < MaxResizeDrags

NextResize ==
  \/ MayRecordResize /\ PointerDownBrush(1)
  \/ PointerUpBrush
  \/ \E tool \in Tools : SetTool(tool)
  \/ float = NoFloat /\ MayRecordResize /\ \E p \in Points : SelectPointerDown(p)
  \/ \E p \in Points : SelectPointerUp(p)
  \/ resizeCount < MaxResizeDrags /\ \E handle \in {"nw", "ne", "se", "sw", "e"} : ResizePointerDown(handle)
  \/ \E p \in ResizePoints : ResizePointerMove(p)
  \/ ResizePointerUp
  \/ ClearSelection
  \/ viewOps < MaxResizeDrags /\ \E size \in ViewportSizes : ViewportResize(size)
  \/ viewOps < MaxResizeDrags /\ ZoomToFit

SpecResize == Init /\ [][NextResize]_vars

MayRecordPersist == Len(history) < MaxPersistHistory /\ historyVersion < MaxVersion

\* Projects: strokes, undo and Add Layer, while the debounce timer fires, saves run
\* step by step and may fail, and projects are switched, created and loaded.

DocumentSizes == {[width |-> documentWidth, height |-> documentHeight],
                  [width |-> documentWidth \div 2, height |-> documentHeight]}

NextPersist ==
  \/ MayRecordPersist /\ PointerDownBrush(1)
  \/ PointerUpBrush
  \/ Undo
  \/ MayRecordPersist /\ Len(layers) < MaxLayersCreated /\ AddLayer
  \/ SaveTimerFires
  \/ SaveSerializes
  \/ SaveThumbnails
  \/ SaveWrites
  \/ SaveLists
  \/ SaveFails
  \/ \E id \in 1..MaxProjects : SwitchProject(id)
  \/ CreateProject
  \/ CreateProjectStored
  \/ CreateProjectResets
  \/ \E fails \in BOOLEAN : LoadProjectSettles(fails)

SpecPersist == Init /\ [][NextPersist]_vars

\* The document size: strokes and changes of the size, while the debounce timer
\* fires and saves run step by step.
NextSize ==
  \/ MayRecordPersist /\ PointerDownBrush(1)
  \/ PointerUpBrush
  \/ Undo
  \/ \E size \in DocumentSizes : SetDocumentSize(size.width, size.height)
  \/ SaveTimerFires
  \/ SaveSerializes
  \/ SaveThumbnails
  \/ SaveWrites
  \/ SaveLists

SpecSize == Init /\ [][NextSize]_vars

\* The dirty mark: context operations on a document that saves bring back to clean.
NextDirty ==
  \/ \E tool \in Tools : SetTool(tool)
  \/ MayRecordPersist /\ Len(layers) < MaxLayersCreated /\ AddLayer
  \/ \E id \in 1..MaxLayersCreated : SetActiveLayer(id)
  \/ ToggleLayersPanel
  \/ SaveTimerFires
  \/ SaveSerializes
  \/ SaveThumbnails
  \/ SaveWrites
  \/ SaveLists

SpecDirty == Init /\ [][NextDirty]_vars

\* The stamp store: uploads and deletions of the oldest or the newest stamp.
NextStamps ==
  \/ stampOps.adds < MAX_STAMPS + ExtraStamps /\ \E ticks, idBelow \in BOOLEAN :
       (ticks => ~idBelow) /\ AddStampAdds(ticks, idBelow)
  \/ AddStampReads
  \/ AddStampPrunes
  \/ /\ stampOps.deletes < MaxStampDeletes
     /\ Len(stampStore) > 0
     /\ \E i \in {1, Len(stampStore)} : DeleteStamp(stampStore[i].id)

SpecStamps == Init /\ [][NextStamps]_vars

\* ------------------------------------------------------------- properties
\* No floating selection is pending and no pointer gesture is in progress.
Quiescent == float = NoFloat /\ PointerIdle

\* C1: in every reachable state the history cursor lies between -1 and the index of
\* the last entry, and the log holds at most maxHistory entries.
C1_CursorInRange ==
  /\ -1 <= historyIndex
  /\ historyIndex <= Len(history) - 1
  /\ Len(history) <= maxHistory

\* C2: undo() or redo() called with a floating selection pending and a passing
\* boundary check commits the float, which appends one draw record, before an
\* entry is applied; no float is left; after undo() the layer under the float holds
\* the pixels it had before the float was created.
C2_UndoRedoCommitFloat ==
  float # NoFloat =>
    LET c == CommitFloat(Cur)
        n == Len(c.history)
        appended == /\ n = Min(historyIndex + 1, Len(history)) + 1
                    /\ c.history[n].type = "draw"
    IN /\ canUndoOf(Cur) =>
            /\ appended
            /\ UndoOf(Cur).float = NoFloat
            /\ HasLayer(UndoOf(Cur).layers, floatSource.layerId)
            /\ FindLayer(UndoOf(Cur).layers, floatSource.layerId).pixels
                 = floatSource.pixels
       /\ canRedoOf(Cur) =>
            /\ appended
            /\ RedoOf(Cur).float = NoFloat

\* C3: a commit of the pending float, whatever happened since the float was created,
\* appends exactly one draw record, whose before is the pixels the layer had when
\* the float was created and whose after is the layer with the float painted at its
\* origin; no float is left.
C3_CommitAppendsOneRecord ==
  (float # NoFloat /\ HasActiveLayerCtx(Cur)) =>
    LET c == CommitFloat(Cur)
        n == Len(c.history)
    IN /\ c.float = NoFloat
       /\ n = Min(historyIndex + 1, Len(history)) + 1
       /\ c.history[n].type = "draw"
       /\ c.history[n].layerId = floatSource.layerId
       /\ c.history[n].before = floatSource.pixels
       /\ c.history[n].after = DrawImage(ActivePixels(Cur), float.tempCanvas, float.x)

\* C4: with the cursor on a draw entry, undo() followed by redo() leaves every
\* layer's pixels and the cursor as they were.  Stated for the states that favour
\* the claim most: no float is pending and no gesture is in progress.
C4_UndoRedoRoundTrip ==
  (Quiescent /\ canUndoOf(Cur) /\ EntryAt(history, historyIndex).type = "draw") =>
    /\ RedoOf(UndoOf(Cur)).layers = layers
    /\ RedoOf(UndoOf(Cur)).historyIndex = historyIndex

\* a structural operation's result, its undo and the redo of that
UndoRestores(a) ==
  a # Cur => /\ UndoOf(a).layers = layers
             /\ RedoOf(UndoOf(a)).layers = a.layers

\* a committed opacity change: pointerdown on the slider, input, release
CommittedOpacityOf(s, id, v) ==
  OnOpacityChangeOf(
    SetLayerOpacityOf([s EXCEPT !.opacityBefore = FindLayer(s.layers, id).opacity], id, v),
    id, v)

\* C5: undo() immediately after a structural operation restores the layer list with
\* every layer's name, visibility, opacity and pixels, and redo() then reproduces
\* the state after the operation.  Stated for the states that favour the claim
\* most: no float is pending and no gesture is in progress.
C5_StructuralUndoRestores ==
  Quiescent =>
    /\ UndoRestores(AddLayerOf(Cur))
    /\ \A id \in 1..MaxLayersCreated :
         HasLayer(layers, id) =>
           /\ UndoRestores(DeleteLayerOf(Cur, id))
           /\ UndoRestores(SetLayerVisibilityOf(Cur, id, ~FindLayer(layers, id).visible))
           /\ UndoRestores(RenameLayerOf(Cur, id, CustomName))
           /\ \A v \in OpacityValues : UndoRestores(CommittedOpacityOf(Cur, id, v))
           /\ \A i \in 0..(Len(layers) - 1) : UndoRestores(ReorderLayerOf(Cur, id, i))

\* the entry of a rename recorded by the properties below
ProbeEntry == [type |-> "rename", layerId |-> 1, before |-> LayerName(1),
               after |-> CustomName]

\* C7: after a record from any cursor position the entries after the cursor are
\* gone, the new entry is the last of the log, the cursor is on it and canRedo is
\* false.
C7_RecordMakesEntryLast ==
  LET r == PushHistoryEntry(Cur, ProbeEntry)
      n == Len(r.history)
      kept == Min(Min(historyIndex + 1, Len(history)), maxHistory - 1)
  IN /\ n = kept + 1
     /\ r.history[n] = ProbeEntry
     /\ r.historyIndex = n - 1
     /\ ~canRedoOf(r)

\* C6: in every state reached by addLayer, deleteLayer, reorderLayer,
\* setActiveLayer, undo and redo there is at least one layer, the layer ids are
\* distinct and activeLayerId is the id of a layer of the list.
C6_LayerStackWellFormed ==
  /\ Len(layers) >= 1
  /\ \A i, j \in 1..Len(layers) : layers[i].id = layers[j].id => i = j
  /\ HasLayer(layers, activeLayerId)

\* an undo has removed the active layer that addLayer had inserted
C6_Witness ==
  /\ lastOp = Op("undo", "add-layer")
  /\ Len(layers) = 1
  /\ Len(history) >= 1
  /\ historyIndex < Len(history) - 1

\* undo() called n times
RECURSIVE UndoTimes(_, _)
UndoTimes(s, n) ==
  IF n = 0 THEN s
  ELSE CHOOSE r \in {UndoOf(u) : u \in {UndoTimes(s, n - 1)}} : TRUE

\* the layer after the k-th stroke of a row of strokes on cell 1
Stroke(k) == [WhitePixels EXCEPT ![1] = Ink + k - 1]

\* maxHistory + 1 strokes have been recorded in a row and nothing is undone
CapExceededByOne ==
  /\ strokeColor = Ink + maxHistory
  /\ PointerIdle
  /\ ~canRedoOf(Cur)
  /\ ActivePixels(Cur)[1] = strokeColor

\* C8: after maxHistory + 1 records in a row the log holds exactly maxHistory
\* entries, the most recent ones in their order; undo() can be called exactly
\* maxHistory times, then canUndo is false and the first record's stroke is still
\* on the layer.
C8_CapKeepsMostRecent ==
  CapExceededByOne =>
    /\ Len(history) = maxHistory
    /\ \A i \in 1..maxHistory :
         history[i] = [type |-> "draw", layerId |-> 1, before |-> Stroke(i),
                       after |-> Stroke(i + 1)]
    /\ \A k \in 0..(maxHistory - 1) : canUndoOf(UndoTimes(Cur, k))
    /\ ~canUndoOf(UndoTimes(Cur, maxHistory))
    /\ UndoTimes(Cur, maxHistory).layers[1].pixels = Stroke(1)

\* every entry of the full log has been undone, one undo() at a time
C8_Witness ==
  /\ lastOp = Op("undo", "draw")
  /\ historyIndex = -1
  /\ Len(history) = maxHistory
  /\ strokeColor = Ink + maxHistory
  /\ ActivePixels(Cur) = Stroke(1)

\* the log of: a stroke on the white layer, addLayer, the new layer hidden
ScenarioLog ==
  /\ Len(history) = 3
  /\ history[1].type = "draw"
  /\ history[1].before = WhitePixels
  /\ history[2].type = "add-layer"
  /\ history[3].type = "visibility"
  /\ history[3].layerId = history[2].layer.id
  /\ history[3].after = FALSE

\* C9: from one white layer and an empty history, after a stroke, an addLayer and
\* the new layer hidden, three undo() calls leave a single layer with the white
\* pixels, that layer active, and canUndo false.
C9_ThreeUndosRestoreDocument ==
  (ScenarioLog /\ historyIndex = 2) =>
    LET u == UndoTimes(Cur, 3)
    IN /\ Len(u.layers) = 1
       /\ u.layers[1].pixels = WhitePixels
       /\ u.activeLayerId = u.layers[1].id
       /\ ~canUndoOf(u)

\* the third undo() of the scenario has run
C9_Witness ==
  /\ ScenarioLog
  /\ historyIndex = -1
  /\ lastOp = Op("undo", "draw")
  /\ Len(layers) = 1

\* the entry undo() applies, and the entry redo() applies
UndoEntry == EntryAt(CommitFloat(Cur).history, CommitFloat(Cur).historyIndex)
RedoEntry == EntryAt(CommitFloat(Cur).history, CommitFloat(Cur).historyIndex + 1)

CarriesLayerId(entry) == entry.type \in {"draw", "visibility", "opacity", "rename"}

\* C10: after an undo() or a redo() that applies an entry with a layerId, the active
\* layer is the entry's layer.
C10_UndoRedoActivatesLayer ==
  /\ (canUndoOf(Cur) /\ CarriesLayerId(UndoEntry)) =>
        UndoOf(Cur).activeLayerId = UndoEntry.layerId
  /\ (canRedoOf(Cur) /\ CarriesLayerId(RedoEntry)) =>
        RedoOf(Cur).activeLayerId = RedoEntry.layerId

\* a selection drag has just lifted a rectangle of the active layer into a float
JustLifted ==
  /\ lastOp = Op("pointerup", "lift")
  /\ float # NoFloat
  /\ HasActiveLayerCtx(Cur)

\* C11: deleteSelection() immediately after a lift appends one draw record and leaves
\* the source area cleared; the following undo() puts back the pixels the layer had
\* before the lift and the following redo() clears the lifted area again.
C11_LiftDiscardUndoRedo ==
  JustLifted =>
    LET d == DeleteSelectionOf(Cur)
        n == Len(d.history)
        cleared == ClearRect(floatSource.pixels, float.x, float.w)
    IN /\ d.float = NoFloat
       /\ n = Min(historyIndex + 1, Len(history)) + 1
       /\ d.history[n].type = "draw"
       /\ FindLayer(d.layers, activeLayerId).pixels = cleared
       /\ FindLayer(UndoOf(d).layers, activeLayerId).pixels = floatSource.pixels
       /\ FindLayer(RedoOf(UndoOf(d)).layers, activeLayerId).pixels = cleared

\* the pending float is gone and its pixels are on the layer that is active now
FloatCommittedIn(r) ==
  /\ r.float = NoFloat
  /\ HasLayer(r.layers, activeLayerId)
  /\ FindLayer(r.layers, activeLayerId).pixels
       = DrawImage(ActivePixels(Cur), float.tempCanvas, float.x)

\* the commit triggers that the canvas, the keyboard and the toolbar offer
ExplicitTriggersCommit ==
  /\ activeTool = "select" =>
       \A p \in Points :
         ~IsInsideFloat(Cur, p) => FloatCommittedIn(HandleSelectPointerDownOf(Cur, p))
  /\ FloatCommittedIn(CommitFloat(Cur))
  /\ \A tool \in Tools : tool # activeTool => FloatCommittedIn(SetToolOf(Cur, tool))
  /\ \A id \in 1..MaxLayersCreated :
       HasLayer(layers, id) => FloatCommittedIn(SetActiveLayerOf(Cur, id))
  /\ clipboard # NoClipboard =>
       /\ PasteSelectionOf(Cur).float.originalImageData = clipboard.data
       /\ FindLayer(PasteSelectionOf(Cur).layers, activeLayerId).pixels
            = DrawImage(ActivePixels(Cur), float.tempCanvas, float.x)

\* C12: with a float pending, every commit trigger (a press outside the float,
\* Escape, a switch of the tool, a switch of the active layer by a click on a layer
\* row or by Add Layer, a paste) leaves no float of the old selection and has
\* painted the float on the layer that was active when the trigger fired.
C12_CommitTriggersCommit ==
  (float # NoFloat /\ PointerIdle /\ HasActiveLayerCtx(Cur)) =>
    /\ ExplicitTriggersCommit
    /\ FloatCommittedIn(AddLayerOf(Cur))

\* C14: a drag that moves the float (the press inside it, every pointer move, the
\* release) changes the origin of the float's rectangle and the drag's own flags
\* only: the rectangle's size, the render buffer, the original pixels, every layer,
\* the history and everything else stay as they were.
C14_MoveChangesOriginOnly ==
  float # NoFloat =>
    \A p \in Points :
      /\ (PointerIdle /\ IsInsideFloat(Cur, p)) =>
            HandleSelectPointerDownOf(Cur, p)
              = [Cur EXCEPT !.floatMoving = TRUE, !.floatDragOffset = p - float.x]
      /\ floatMoving =>
            /\ HandleSelectPointerMoveOf(Cur, p)
                 = [Cur EXCEPT !.float.x = p - floatDragOffset,
                               !.currentRect.x = Num(p - floatDragOffset)]
            /\ HandleSelectPointerUpOf(Cur, p)
                 = [Cur EXCEPT !.floatMoving = FALSE, !.floatDragOffset = NoPoint]

\* a drag has moved the float away from where it was lifted
C14_Witness ==
  /\ lastOp = Op("pointermove", "move")
  /\ floatMoving
  /\ float.x # 0
  /\ float.w = Len(float.tempCanvas)
  /\ float.tempCanvas = float.originalImageData
  /\ ActivePixels(Cur) = ClearRect(floatSource.pixels, 0, float.w)

\* C18: in every state reached by zoomIn, zoomOut, Ctrl+wheel, zoomToFit, pan and
\* the resize of the viewport, MIN_ZOOM <= zoom <= MAX_ZOOM.
C18_ZoomInRange ==
  /\ AtMost(MIN_ZOOM, zoom)
  /\ AtMost(zoom, MAX_ZOOM)

\* zoomIn was asked for at the maximum zoom
C18_Witness ==
  /\ lastOp = Op("zoomIn", "rejected")
  /\ zoom = MAX_ZOOM

\* the document point that the viewport v shows at the screen position (x, y)
DocPointAt(v, x, y) ==
  <<Over(Minus(x, v.panX), v.zoom), Over(Minus(y, v.panY), v.zoom)>>

\* C19: a Ctrl+wheel zoom keeps the document point under the cursor at the cursor,
\* (cursor - panBefore) / zoomBefore = (cursor - panAfter) / zoomAfter on both axes,
\* and zoomIn and zoomOut do the same for the centre of the viewport.
C19_ZoomKeepsAnchor ==
  /\ \A c \in CursorPositions : \A d \in WheelDirections :
       DocPointAt(OnWheelZoom(View, c[1], c[2], d), Num(c[1]), Num(c[2]))
         = DocPointAt(View, Num(c[1]), Num(c[2]))
  /\ DocPointAt(ZoomInOf(View), Frac(vw, 2), Frac(vh, 2))
       = DocPointAt(View, Frac(vw, 2), Frac(vh, 2))
  /\ DocPointAt(ZoomOutOf(View), Frac(vw, 2), Frac(vh, 2))
       = DocPointAt(View, Frac(vw, 2), Frac(vh, 2))

\* a Ctrl+wheel zoom away from the origin of the screen has changed zoom and pan
C19_Witness ==
  /\ lastOp = Op("wheel", "zoom")
  /\ zoom # Num(1)
  /\ panX # Num(0)
  /\ panY # Num(0)

\* C13: the render buffer of a float is its original pixels resampled to the buffer's
\* size; when a resize ends at the original width and height the buffer equals the
\* original pixels; and no step changes the original pixels of a float that stays.
C13_BufferFromOriginal ==
  /\ [](float # NoFloat =>
          /\ float.tempCanvas = Resample(float.originalImageData, Len(float.tempCanvas))
          /\ (/\ Len(float.tempCanvas) = Len(float.originalImageData)
              /\ Max(1, MathRound(currentRect.h).n) = DocRows
              => float.tempCanvas = float.originalImageData))
  /\ [][float # NoFloat /\ float' # NoFloat
          => float'.originalImageData = float.originalImageData]_vars

\* a second drag that started at another width has brought a float of two colours back
\* to its original size
C13_Witness ==
  /\ float # NoFloat
  /\ lastOp = Op("pointermove", "resize")
  /\ resizeCount = MaxResizeDrags
  /\ MathRound(floatResizeOrigin.rect.w).n # Len(float.originalImageData)
  /\ Len(float.tempCanvas) = Len(float.originalImageData)
  /\ Max(1, MathRound(currentRect.h).n) = DocRows
  /\ \E i, j \in 1..Len(float.originalImageData) :
        float.originalImageData[i] # float.originalImageData[j]

\* C15: a resize by a corner handle keeps the corner opposite to the handle, as it was
\* at the start of the drag, a corner of the rectangle, for every pointer position.
C15_OppositeCornerFixed ==
  floatResizing /\ floatResizeHandle \in {"nw", "ne", "se", "sw"} =>
    \A p \in ResizePoints :
      LET r == ApplyResize(Cur, p, zoom).currentRect
          orig == floatResizeOrigin.rect
          cx == IF floatResizeHandle \in {"nw", "sw"} THEN Plus(orig.x, orig.w) ELSE orig.x
          cy == IF floatResizeHandle \in {"nw", "ne"} THEN Plus(orig.y, orig.h) ELSE orig.y
      IN /\ cx \in {r.x, Plus(r.x, r.w)}
         /\ cy \in {r.y, Plus(r.y, r.h)}

\* C16: a resize by a corner handle keeps the aspect ratio of the rectangle at the
\* start of the drag, for every pointer position.
C16_AspectKept ==
  floatResizing /\ floatResizeHandle \in {"nw", "ne", "se", "sw"} =>
    \A p \in ResizePoints :
      LET r == ApplyResize(Cur, p, zoom).currentRect
          orig == floatResizeOrigin.rect
      IN Times(r.w, orig.h) = Times(r.h, orig.w)

\* C17: after a resize step, for every handle and pointer position, the width and the
\* height of the rectangle are at least 4 / zoom.
C17_AtLeastMinSize ==
  floatResizing =>
    \A p \in ResizePoints :
      LET r == ApplyResize(Cur, p, zoom).currentRect
      IN AtMost(Over(Num(4), zoom), r.w) /\ AtMost(Over(Num(4), zoom), r.h)

\* a drag of a west handle past the east edge has flipped the rectangle
C17_Witness ==
  /\ lastOp = Op("pointermove", "resize")
  /\ floatResizing
  /\ floatResizeHandle \in {"nw", "sw"}
  /\ currentRect.x = Plus(floatResizeOrigin.rect.x, floatResizeOrigin.rect.w)
  /\ AtMost(Over(Num(4), zoom), currentRect.w)
  /\ AtMost(Over(Num(4), zoom), currentRect.h)

\* C20: composite leaves the document (layers, their pixels, visibility and opacity,
\* the active layer, the history, the float) and the viewport as they are; the layers
\* it paints are the visible ones, bottom to top, each with its opacity, under the
\* translation by the pan and the scale by the zoom; a second call with the same
\* document and viewport leaves the same display.
C20_CompositeReadsOnly ==
  \A v \in {View, OnWheelPan(View, 100, 0), ZoomInOf(View)} :
    \A d \in {Display0, CompositeOf(Cur, View, Display0).display} :
      LET r == CompositeOf(Cur, v, d)
          IsVisible(l) == l.visible
          IsLayerPaint(x) == x.what = "layer"
          visible == SelectSeq(layers, IsVisible)
          paints == SelectSeq(r.display.painted, IsLayerPaint)
      IN /\ r.doc = Cur
         /\ r.view = v
         /\ Len(paints) = Len(visible)
         /\ \A i \in 1..Len(visible) :
              paints[i] = [what |-> "layer", arg |-> visible[i].pixels,
                           transform |-> [scale |-> v.zoom, tx |-> v.panX, ty |-> v.panY],
                           alpha |-> visible[i].opacity]
         /\ CompositeOf(r.doc, r.view, r.display).display = r.display

\* two layers, one of them hidden
C20_Witness ==
  /\ Len(layers) = 2
  /\ \E i, j \in 1..Len(layers) : ~layers[i].visible /\ layers[j].visible

C23_BoundaryNoOp ==
  /\ historyIndex < 0 =>
       /\ Len(UndoOf(Cur).history) = Len(history)
       /\ UndoOf(Cur) = Cur
  /\ historyIndex >= Len(history) - 1 =>
       /\ Len(RedoOf(Cur).history) = Len(history)
       /\ RedoOf(Cur) = Cur

\* a float is pending while the cursor is before the first entry of a log that is
\* not empty: undo has nothing to undo, redo has
C23_Witness == historyIndex < 0 /\ Len(history) > 0 /\ float # NoFloat

\* C24: deleteLayer is rejected while the document has exactly one layer: layers,
\* active layer and log stay as they are.
C24_LastLayerKept ==
  Len(layers) = 1 =>
    \A id \in 1..MaxLayersCreated :
      LET r == DeleteLayerOf(Cur, id)
      IN /\ r.layers = layers
         /\ r.activeLayerId = activeLayerId
         /\ Len(r.history) = Len(history)
         /\ r.historyIndex = historyIndex
         /\ r.historyVersion = historyVersion
         /\ r = Cur

\* the delete button was pressed on the only layer of a document with a log
C24_Witness ==
  lastOp = Op("deleteLayer", "rejected") /\ Len(layers) = 1 /\ Len(history) > 0

\* C25: a selection drag that ends with a rectangle below the lift threshold, the
\* empty one included, creates no float, changes no pixel and records nothing.
C25_DegenerateDragLiftsNothing ==
  selectionDrawing /\ startPoint # NoPoint =>
    \A p \in Points \cup OutsidePoints :
      Max(startPoint, p) - Min(startPoint, p) < 2 =>
        LET r == HandleSelectPointerUpOf(Cur, p)
        IN /\ r.float = NoFloat
           /\ r.layers = layers
           /\ Len(r.history) = Len(history)
           /\ r.historyIndex = historyIndex
           /\ ~r.selectionDrawing

\* a drag was released one cell from where it started, over a painted layer
C25_Witness ==
  /\ lastOp = Op("pointerup", "degenerate")
  /\ \E c \in Cells : ActivePixels(Cur)[c] >= Ink

\* C29: the rectangle that a selection drag or a call of _liftToFloat reads, clears
\* and makes the float's first rectangle lies within the document.
C29_LiftWithinDocument ==
  /\ selectionDrawing /\ startPoint # NoPoint =>
       \A p \in Points \cup OutsidePoints :
         LET r == HandleSelectPointerUpOf(Cur, p)
         IN r.float # NoFloat =>
              r.float.x >= 0 /\ r.float.x + r.float.w <= CellsOf(docWidth)
  /\ float # NoFloat /\ lastOp = Op("pointerup", "lift") =>
       float.x >= 0 /\ float.x + float.w <= CellsOf(docWidth)

\* C30: a key pressed in a text input runs no shortcut of the application (undo,
\* redo, copy, cut, paste, deleteSelection, clearSelection); the same key pressed on
\* an input that takes no text, the range slider, runs it as on the canvas.
C30_TextInputsKeepKeys ==
  \A e \in KeyEvents :
    /\ e.target \in TextInputs => KeyDownOf(Cur, e) = Cur
    /\ e.target = "rangeInput" =>
         KeyDownOf(Cur, e) = KeyDownOf(Cur, [e EXCEPT !.target = "canvas"])

\* C28: setDocumentSize with a new size resizes the surface of every layer, empties
\* the log (cursor -1), and resets the saved-history length to 0 and the
\* saved-history version to the sentinel, so that the next save rewrites the whole
\* persisted log.
C28_ResizeForcesFullSave ==
  \A size \in DocumentSizes :
    size.width # docWidth \/ size.height # docHeight =>
      LET r == SetDocumentSizeOf(World, size.width, size.height)
      IN /\ \A i \in 1..Len(r.doc.layers) :
              Len(r.doc.layers[i].pixels) = CellsOf(size.width)
         /\ r.doc.docWidth = size.width /\ r.doc.docHeight = size.height
         /\ Len(r.doc.history) = 0 /\ r.doc.historyIndex = -1
         /\ r.app.lastSavedHistoryLength = 0
         /\ r.app.lastSavedHistoryVersion = FORCE_FULL_HISTORY_SAVE

\* C22: the state record that a save writes is a snapshot of one instant of one
\* project: project id, layers, active layer, document size and cursor are those the
\* save found when it started, whatever happened while it ran; so the active layer is
\* one of the record's layers, and record and log are written for the same project.
C22_RecordIsOneSnapshot ==
  saveTask.pc \in {"thumbnail", "write"} =>
    LET record == saveTask.stateRecord
        found == saveTask.started
    IN /\ record.projectId = found.projectId
       /\ record.layers = SerializeLayers(saveTask.layerSnapshots)
       /\ record.activeLayerId = found.activeLayerId
       /\ record.canvasWidth = found.canvasWidth
       /\ record.canvasHeight = found.canvasHeight
       /\ record.historyIndex = saveTask.historyIndex
       /\ \E i \in 1..Len(record.layers) : record.layers[i].id = record.activeLayerId
       /\ saveTask.pc = "write" => saveTask.projectId = found.projectId

\* C27: when a step of a save throws, layers, log and cursor in memory stay as they
\* are, the dirty mark is not cleared, and saveInProgress and saving are reset, so
\* that the next call of _save starts a save.
C27_FailedSaveKeepsDirty ==
  saveTask.pc \in {"serialize", "write"} =>
    LET r == SaveFailed(World)
    IN /\ r.doc = Cur
       /\ r.app.dirty = dirty
       /\ r.app.stateStore = stateStore /\ r.app.historyStore = historyStore
       /\ ~r.app.saveInProgress /\ ~r.app.saving
       /\ r.app.dirty => Save(r).app.saveTask.pc = "serialize"

\* a save of a document with a log has failed and the document is still dirty
C27_Witness ==
  /\ lastOp = Op("save", "failed")
  /\ dirty /\ ~saveInProgress /\ ~saving
  /\ Len(history) > 0

\* C26: when loading a project fails, because its state record is missing or a step
\* of the load throws, the document is a fresh blank one: exactly one layer, new and
\* white, which is the active one, and an empty log with the cursor at -1; no layer
\* of the document before or of the record is left.
C26_FailedLoadIsFresh ==
  projectTask.pc = "loadProjectState" =>
    \A fails \in BOOLEAN :
      fails \/ stateStore[projectTask.target] = NoRecord =>
        LET r == LoadProject(World, projectTask.target, fails)
            record == stateStore[projectTask.target]
        IN /\ Len(r.doc.layers) = 1
           /\ r.doc.activeLayerId = r.doc.layers[1].id
           /\ \A c \in DOMAIN r.doc.layers[1].pixels : r.doc.layers[1].pixels[c] = White
           /\ Len(r.doc.layers[1].pixels) = CellsOf(docWidth)
           /\ \A i \in 1..Len(layers) : layers[i].id # r.doc.layers[1].id
           /\ record # NoRecord =>
                \A i \in 1..Len(record.layers) : record.layers[i].id # r.doc.layers[1].id
           /\ Len(r.doc.history) = 0
           /\ r.doc.historyIndex = -1
           /\ ~r.app.dirty

\* the load of a project whose record and log are in the database has failed
C26_Witness ==
  /\ lastOp = Op("loadProject", "failed")
  /\ Len(historyStore[currentProject]) > 0
  /\ Len(layers) = 1 /\ Len(history) = 0

\* the fields of the document that _save writes into the state record
PersistedFields ==
  <<activeTool, strokeColor, docWidth, docHeight, layers, activeLayerId, layersPanelOpen,
    historyIndex>>

\* C31: a context operation that changes a field of the persisted state record marks
\* the project dirty and schedules a save; toggleLayersPanel, which flips
\* layersPanelOpen, does.
C31_PersistedChangeMarksDirty ==
  [][PersistedFields' # PersistedFields => dirty' /\ saveTimer']_vars

\* C32: once a call of addStamp has completed, the stamp store holds at most
\* MAX_STAMPS entries; no entry that was pruned is newer than an entry that is kept;
\* and getRecentStamps returns the entries of the store, the newest first.
C32_StoreKeepsNewest ==
  LET recent == GetRecentStamps(stampStore, MAX_STAMPS)
  IN /\ stampTask = NoTask => Len(stampStore) <= MAX_STAMPS
     /\ \A i \in 1..Len(stampStore) : stampPruned <= stampStore[i].createdAt
     /\ \A i, j \in 1..Len(recent) : i < j => recent[i].createdAt >= recent[j].createdAt
     /\ stampTask = NoTask =>
          {recent[i] : i \in 1..Len(recent)} = {stampStore[i] : i \in 1..Len(stampStore)}

\* addStamp has pruned a full store after a stamp was deleted and two stamps were
\* created in the same tick
C32_Witness ==
  /\ lastOp = Op("addStamp", "pruned")
  /\ Len(stampStore) = MAX_STAMPS
  /\ stampOps.deletes > 0
  /\ \E i, j \in 1..Len(stampStore) :
       i # j /\ stampStore[i].createdAt = stampStore[j].createdAt

\* C33: a redo() that passed the boundary check has applied the forward effect of
\* an entry that exists in the log at the new cursor position, also when a floating
\* selection was pending at the time of the call.
C33_RedoAppliesExistingEntry ==
  lastOp.op = "redo" =>
    /\ lastOp.arg # NoEntry.type
    /\ EntryAt(history, historyIndex) # NoEntry
    /\ EntryAt(history, historyIndex).type = lastOp.arg

\* C34: a draw record appended when a pending float ends names the layer the float
\* was created over, which is the layer its before snapshot was captured from, and
\* its after snapshot is the pixels of that layer, whatever happened between the
\* capture and the push (addLayer included).
C34_SnapshotsOfNamedLayer ==
  [][(/\ float # NoFloat
      /\ float' = NoFloat
      /\ lastOp'.op \notin {"undo", "redo"}
      /\ Len(history') = Min(historyIndex + 1, Len(history)) + 1
      /\ historyIndex' = Len(history') - 1
      /\ history'[Len(history')].type = "draw")
     => LET record == history'[Len(history')]
        IN /\ record.layerId = floatSource.layerId
           /\ HasLayer(layers', record.layerId)
           /\ record.after = FindLayer(layers', record.layerId).pixels]_vars

\* C35: a brush gesture captures the active layer's pixels at pointer down, no
\* command that runs between pointer down and pointer up (paste, undo) replaces
\* or drops that snapshot, and pointer up appends exactly one draw record whose
\* before snapshot it is.
C35_GestureAppendsOneRecord ==
  [][/\ (~drawing /\ drawing') => beforeDrawData' = ActivePixels(Cur)
     /\ (drawing /\ drawing') => beforeDrawData' = beforeDrawData
     /\ (drawing /\ ~drawing') =>
          /\ Len(history') = Min(historyIndex + 1, Len(history)) + 1
          /\ historyIndex' = Len(history') - 1
          /\ history'[Len(history')].type = "draw"
          /\ history'[Len(history')].before = beforeDrawData]_vars

\* C36: a float is never replaced or dropped silently.  A step that lifts a new
\* float starts with no float pending; and a step that ends a pending float, or
\* pastes over it, is an explicit discard (delete, cut) or has painted the float
\* on the active layer (undo and redo apply an entry after they painted it).
C36_FloatEndsByCommitOrDiscard ==
  [][/\ lastOp' = Op("pointerup", "lift") => float = NoFloat
     /\ (/\ float # NoFloat
         /\ float' = NoFloat \/ lastOp'.op = "paste"
         /\ lastOp'.op \notin {"delete", "cut", "undo", "redo"})
        => /\ HasLayer(layers', activeLayerId)
           /\ FindLayer(layers', activeLayerId).pixels
                = DrawImage(ActivePixels(Cur), float.tempCanvas, float.x)]_vars

\* selections lifted with the select tool while projects are created, switched and
\* loaded
NextReplace ==
  \/ \E tool \in Tools : SetTool(tool)
  \/ MayRecordPersist /\ \E p \in Points : SelectPointerDown(p)
  \/ \E p \in Points : SelectPointerUp(p)
  \/ SaveTimerFires
  \/ SaveSerializes
  \/ SaveThumbnails
  \/ SaveWrites
  \/ SaveLists
  \/ \E id \in 1..MaxProjects : SwitchProject(id)
  \/ CreateProject
  \/ CreateProjectStored
  \/ CreateProjectResets
  \/ \E fails \in BOOLEAN : LoadProjectSettles(fails)

SpecReplace == Init /\ [][NextReplace]_vars

\* C37: when createProject has reset the document, or a project load has settled,
\* no float and no pending before snapshot of the previous document remain.
C37_ReplacedDocumentHasNoFloat ==
  (lastOp = Op("createProject", "reset") \/ lastOp.op = "loadProject") =>
    /\ float = NoFloat
    /\ beforeDrawData = <<>>

\* a call of _save made while a save is running: the debounce timer fires, or
\* switchProject or createProject find the project dirty
SecondSaveCall ==
  /\ saveInProgress
  /\ \/ lastOp' = Op("save", "timer")
     \/ dirty /\ lastOp' \in {Op("switchProject", ""), Op("createProject", "")}

\* the second call starts no save and writes nothing
SecondSaveWritesNothing ==
  /\ saveTask' = saveTask
  /\ saveInProgress'
  /\ stateStore' = stateStore
  /\ historyStore' = historyStore
  /\ dirty' = dirty

\* C38 as stated: a _save call that starts while a save is running writes nothing
\* and reschedules itself.
C38_SecondSaveReschedules ==
  [][SecondSaveCall => SecondSaveWritesNothing /\ saveTimer']_vars

\* C38: at most one save is in progress: a running save keeps its snapshot until
\* it ends, and a _save call made meanwhile writes nothing; it reschedules itself
\* when the project is dirty and returns at once when the running save has already
\* cleared the dirty flag.
C38_OneSaveAtATime ==
  [][/\ saveInProgress' <=> saveTask' # NoTask
     /\ (saveTask # NoTask /\ saveTask' # NoTask) =>
          /\ saveTask'.started = saveTask.started
          /\ saveTask'.layerSnapshots = saveTask.layerSnapshots
          /\ saveTask'.historySnapshot = saveTask.historySnapshot
     /\ SecondSaveCall => SecondSaveWritesNothing /\ (saveTimer' <=> dirty)]_vars

\* the debounce timer has fired during a save that had passed its first await, and
\* the call has rescheduled itself
C38_Witness ==
  /\ lastOp = Op("save", "timer")
  /\ saveInProgress
  /\ saveTask.pc \in {"thumbnail", "write"}
  /\ dirty
  /\ saveTimer

\* the state record that a save of the document in memory would write
InMemoryRecord ==
  [projectId |-> currentProject, activeTool |-> activeTool, strokeColor |-> strokeColor,
   canvasWidth |-> docWidth, canvasHeight |-> docHeight,
   layersPanelOpen |-> layersPanelOpen, layers |-> SerializeLayers(layers),
   activeLayerId |-> activeLayerId, historyIndex |-> historyIndex]

\* the store holds the document in memory: its state record and, read back in
\* index order, its history
Persisted ==
  /\ stateStore[currentProject] = InMemoryRecord
  /\ SortedEntries(historyStore[currentProject]) = history

\* a save is running that has not written yet and whose snapshot is the document
\* in memory
SaveIncludesEdits ==
  /\ saveTask.pc \in {"serialize", "thumbnail", "write"}
  /\ saveTask.layerSnapshots = layers
  /\ saveTask.historySnapshot = history
  /\ saveTask.historyIndex = historyIndex

\* C39: no edit is lost by the save protocol.  Between gestures, when the document
\* in memory differs from what the store holds, the project is dirty or a save
\* whose snapshot includes the edit is running; and once no save is running and no
\* debounce timer is pending (saves succeed), the store holds the document in
\* memory, also when the edit was made while a save was awaiting a step.
C39_NoEditLost ==
  PointerIdle =>
    /\ ~Persisted => dirty \/ SaveIncludesEdits
    /\ (saveTask = NoTask /\ ~saveTimer) => Persisted

\* C40: when a save has written, the history entries stored for the project, read
\* back in index order, are the log the save took as its snapshot, and the stored
\* historyIndex is the cursor of that snapshot.
C40_StoredHistoryIsSnapshot ==
  saveTask.pc = "listProjects" =>
    /\ SortedEntries(historyStore[saveTask.projectId]) = saveTask.historySnapshot
    /\ stateStore[saveTask.projectId].historyIndex = saveTask.historyIndex

====
